---- MODULE Spec2Model ----
(***************************************************************************)
(* A model of the LLM4ArxivPaper topic-to-summary pipeline:                *)
(*   fetchers/arxiv_client.py    ArxivClient                               *)
(*   filters/relevance_ranker.py RelevanceRanker                           *)
(*   summaries/task_reader.py    TaskReader                                *)
(*   workflow/pipeline.py        run_pipeline                              *)
(*                                                                         *)
(* Python floats are modelled as exact rationals [n, d] in lowest terms.   *)
(* A text is a sequence of segments (sentences); the segment WS stands for *)
(* a run of whitespace, so that str.strip() and the `or` fallbacks of the  *)
(* code have something to act on.  The lowercased title + abstract of a    *)
(* paper is the set of marker words it contains.                           *)
(* Every network, LLM or library call is an input of the action that makes *)
(* it: its outcome is chosen with \E among the outcomes the call can have. *)
(***************************************************************************)
EXTENDS Integers, Sequences, FiniteSets, TLC

VARIABLES
    \* RelevanceRanker.score, run on its own (SpecRanker)
    rk_pc, rk_in, rk_out,
    \* TaskReader.analyse, run on its own (SpecReader): its position, its
    \* arguments and the reader's client, its locals and the calls it made
    rd_pc, rd_in, rd,
    \* run_pipeline (Spec): its position, the configuration it loaded, and
    \* its locals with the calls it made to its collaborators
    pl_pc, pl_cfg, pl,
    \* ArxivClient.fetch_for_topic, run on its own (SpecFetch): its position,
    \* its arguments with the libraries at hand, its locals and its requests
    ft_pc, ft_in, ft,
    \* StaticSiteBuilder.build, run on its own (SpecSite): its position, the
    \* summaries it is given, its locals with the files it wrote
    st_pc, st_in, st,
    \* EmailDigest.send, run on its own (SpecMail): its position, its configuration and arguments, what it did
    em_pc, em_in, em,
    \* cli.main (SpecCli): the position of the process around run_pipeline, and how it ended
    cl_pc, cl,
    \* PDFParser.fetch_text_from_pdf, run on its own (SpecPdf): its position,
    \* the parser and its arguments, its locals with the files on disk and on
    \* the file API
    pf_pc, pf_in, pf,
    \* GitHubClient._make_request: position, arguments, locals
    gh_pc, gh_in, gh

rankVars == <<rk_pc, rk_in, rk_out>>
readVars == <<rd_pc, rd_in, rd>>
pipeVars == <<pl_pc, pl_cfg, pl>>
fetchVars == <<ft_pc, ft_in, ft>>
siteVars == <<st_pc, st_in, st>>
mailVars == <<em_pc, em_in, em>>
cliVars == <<cl_pc, cl>>
pdfVars == <<pf_pc, pf_in, pf>>
ghVars == <<gh_pc, gh_in, gh>>
vars == <<rk_pc, rk_in, rk_out, rd_pc, rd_in, rd, pl_pc, pl_cfg, pl, ft_pc, ft_in, ft,
          st_pc, st_in, st,
          em_pc, em_in, em,
          cl_pc, cl,
          pf_pc, pf_in, pf,
          gh_pc, gh_in, gh>>

(***************************************************************************)
(* Bounds of the model                                                     *)
(***************************************************************************)
\* the longest candidate list handed to the ranker in SpecRanker
MaxPapers == 2
\* the most questions the LLM returns to one question-generation request
MaxLLMQuestions == 6
\* the most candidates the archive client returns for one topic in Spec
MaxFetched == 2
\* the most entries in one feed of the archive in SpecFetch
MaxFeed == 2
\* the most summaries handed to the site builder in SpecSite
MaxSummaries == 3

(***************************************************************************)
(* Rationals                                                               *)
(***************************************************************************)
RECURSIVE GCD(_, _)
GCD(a, b) == IF b = 0 THEN a ELSE GCD(b, a % b)

Abs(x) == IF x < 0 THEN -x ELSE x

\* n/d in lowest terms, d > 0
Rat(n, d) == LET g == GCD(Abs(n), d) IN [n |-> n \div g, d |-> d \div g]

RatInt(k) == [n |-> k, d |-> 1]
RatAdd(a, b) == Rat(a.n * b.d + b.n * a.d, a.d * b.d)
RatMul(a, b) == Rat(a.n * b.n, a.d * b.d)
\* a / b for b > 0
RatDiv(a, b) == Rat(a.n * b.d, a.d * b.n)
RatLE(a, b) == a.n * b.d <= b.n * a.d
RatLT(a, b) == a.n * b.d < b.n * a.d
\* Python's min(a, b) and max(a, b) on ordinary floats
RatMin(a, b) == IF RatLT(b, a) THEN b ELSE a
RatMax(a, b) == IF RatLT(a, b) THEN b ELSE a

RECURSIVE RatSum(_)
RatSum(s) == IF s = <<>> THEN RatInt(0) ELSE RatAdd(Head(s), RatSum(Tail(s)))

(***************************************************************************)
(* Configuration and papers                                                *)
(***************************************************************************)
\* core/models.py RelevanceDimension: the scoring dimensions of a run
Dim(name, w) == [name |-> name, weight |-> w]

DimConfigs ==
    { <<Dim("topic_alignment", Rat(1, 2)), Dim("methodology_fit", Rat(1, 4)),
        Dim("novelty", Rat(1, 4))>>,
      <<Dim("experiment_coverage", Rat(1, 1)), Dim("impact", Rat(1, 2))>>,
      <<Dim("novelty", RatInt(0)), Dim("impact", RatInt(0))>>,
      <<>> }

\* core/models.py TopicConfig with its TopicQuery
Topic(name, cats, inc, exc, prompt) ==
    [name |-> name, categories |-> cats, include |-> inc, exclude |-> exc,
     interest_prompt |-> prompt]

TopicList ==
    << Topic("retrieval", <<"cs.ir">>, <<"retrieval", "ranking">>, <<"survey">>,
             {"retrieval", "dense"}),
       Topic("agents", <<>>, <<>>, <<>>, {}),
       Topic("testing", <<"cs.se">>, <<"fuzzing">>, <<>>, {"fuzzing"}) >>

\* A text: a sequence of segments; WS is a segment of whitespace only
WS == " "

\* core/models.py PaperCandidate.  words: the marker words that occur in the
\* lowercased title + " " + abstract.
Paper(id, words, abstract, pdf) ==
    [arxiv_id |-> id, words |-> words, abstract |-> abstract, pdf_url |-> pdf]

PaperA == Paper("2401.00001",
                {"retrieval", "cs.ir", "novel", "first", "improve",
                 "benchmark", "experiment", "dataset"},
                <<"We propose a novel retrieval method.",
                  "Experiments on a benchmark dataset improve the state.",
                  "It is the first of its kind.">>, TRUE)
PaperB == Paper("2401.00002", {"theorem"}, <<"An unrelated theorem.">>, TRUE)
PaperC == Paper("2401.00003", {"fuzzing", "new", "evaluation"}, <<>>, FALSE)

PaperPool == {PaperA, PaperB, PaperC}

\* a paper of the archive whose title names a word topics exclude
PaperS == Paper("2401.00004", {"retrieval", "survey"},
                <<"A survey of retrieval methods.">>, TRUE)

\* all sequences over S of length at most n
SeqsUpTo(S, n) == UNION { [1..k -> S] : k \in 0..n }

(***************************************************************************)
(* filters/relevance_ranker.py                                             *)
(***************************************************************************)
\* number of indices of the list whose element is in the text
Hits(keywords, text) == Cardinality({ i \in DOMAIN keywords : keywords[i] \in text })

\* RelevanceRanker._keyword_score
_keyword_score(keywords, text) ==
    IF keywords = <<>> THEN Rat(1, 2)
    ELSE RatMin(RatInt(1),
                Rat(Hits(keywords, text),
                    IF Len(keywords) > 1 THEN Len(keywords) ELSE 1))

novelty_words == <<"novel", "new", "first", "improve", "state-of-the-art">>
experiment_words == <<"experiment", "evaluation", "benchmark", "dataset", "ablation">>

\* RelevanceRanker._novelty_hint
_novelty_hint(text) == RatMin(RatInt(1), Rat(Hits(novelty_words, text), 3))

\* RelevanceRanker._experiment_hint
_experiment_hint(text) == RatMin(RatInt(1), Rat(Hits(experiment_words, text), 3))

\* max(0.0, min(100.0, score)) on an ordinary float
Clamp100(score) == RatMax(RatInt(0), RatMin(RatInt(100), score))

\* core/models.py DimensionScore
DimensionScore(name, weight, value) == [name |-> name, weight |-> weight, value |-> value]

\* The heuristic's raw score of one dimension, before it is clamped
HeuristicRaw(dim, topic, paper) ==
    LET text == paper.words
        both == paper.words \cup topic.interest_prompt
    IN  CASE dim.name = "topic_alignment" ->
                RatAdd(RatMul(_keyword_score(topic.include, text), RatInt(70)),
                       RatMul(_keyword_score(topic.categories, text), RatInt(30)))
          [] dim.name = "methodology_fit" ->
                RatMul(_keyword_score(topic.include, both), RatInt(80))
          [] dim.name = "novelty" ->
                RatAdd(RatInt(40), RatMul(RatInt(60), _novelty_hint(text)))
          [] dim.name = "experiment_coverage" ->
                RatAdd(RatInt(30), RatMul(RatInt(70), _experiment_hint(text)))
          [] OTHER -> RatInt(50)

\* RelevanceRanker._score_heuristic
_score_heuristic(dims, topic, paper) ==
    [ i \in DOMAIN dims |->
        DimensionScore(dims[i].name, dims[i].weight,
                       RatDiv(Clamp100(HeuristicRaw(dims[i], topic, paper)), RatInt(100))) ]

(* The LLM's answer to one scoring request: [kind, entry, missing].          *)
(*   kind "error":     the call or json.loads raised                          *)
(*   kind "notobject": the JSON is not an object (data.get raises)            *)
(*   kind "object":    every dimension reads the entry `entry`, but the ones  *)
(*                     named in `missing`, which the response does not hold   *)
(* An entry [t, v]:                                                           *)
(*   t "num"     "score" is the number v      t "nan"  "score" is NaN         *)
(*   t "text"    "score" is not a number      t "noscore" no "score" key      *)
(*   t "scalar"  the entry is not an object (dim_data.get raises)             *)
RawScores == { RatInt(0 - 20), Rat(111, 2), RatInt(130) }
LLMEntries == [ t : {"num"}, v : RawScores ] \cup
              [ t : {"nan", "text", "scalar", "noscore"}, v : {RatInt(0)} ]

DimNames(dims) == { dims[i].name : i \in DOMAIN dims }

\* the responses tried: every entry with no dimension missing, and one
\* in-range score with the first configured dimension missing
RankResponses(dims) ==
    [ kind : {"error", "notobject"}, entry : {[t |-> "noscore", v |-> RatInt(0)]},
      missing : {{}} ] \cup
    [ kind : {"object"}, entry : LLMEntries, missing : {{}} ] \cup
    [ kind : {"object"}, entry : {[t |-> "num", v |-> Rat(111, 2)]},
      missing : { {dims[i].name} : i \in DOMAIN dims \cap {1} } ]

\* LLMScoreValue without the clamp of line 107
LLMScoreValue_NoClamp(entry) ==
    CASE entry.t = "noscore" -> RatInt(0)
      [] entry.t = "nan" -> RatInt(100)
      [] OTHER -> entry.v

\* float(dim_data.get("score", 0)) followed by max(0.0, min(100.0, .)).
\* min(100.0, nan) is 100.0 in Python: nan < 100.0 is false, the first stays.
LLMScoreValue(entry) ==
    CASE entry.t = "noscore" -> RatInt(0)
      [] entry.t = "nan" -> RatInt(100)
      [] OTHER -> Clamp100(entry.v)

\* whether _score_with_llm raises on this response
LLMScoreRaises(dims, resp) ==
    \/ resp.kind \in {"error", "notobject"}
    \/ /\ resp.entry.t \in {"text", "scalar"}
       /\ \E i \in DOMAIN dims : dims[i].name \notin resp.missing

\* _score_with_llm keeping only the dimensions the response names
_score_with_llm_SkipMissing(dims, resp) ==
    LET named == SelectSeq(dims, LAMBDA dim : dim.name \notin resp.missing)
    IN  [ i \in DOMAIN named |->
            DimensionScore(named[i].name, named[i].weight,
                RatDiv(LLMScoreValue(resp.entry), RatInt(100))) ]

\* RelevanceRanker._score_with_llm, on a response it does not raise on:
\* a dimension the response does not name reads {} and scores 0
_score_with_llm(dims, resp) ==
    [ i \in DOMAIN dims |->
        DimensionScore(dims[i].name, dims[i].weight,
            RatDiv(IF dims[i].name \in resp.missing
                   THEN RatInt(0)
                   ELSE LLMScoreValue(resp.entry),
                   RatInt(100))) ]

\* core/models.py ScoredPaper; path records which scorer produced it
ScoredPaper(paper, scores, path) ==
    [paper |-> paper, scores |-> scores, path |-> path,
     total_score |-> RatSum([ i \in DOMAIN scores |->
                                RatMul(scores[i].weight, scores[i].value) ])]

\* ScoreOne without the try/except around _score_with_llm
ScoreOne_NoExcept(client, dims, topic, paper, resp) ==
    IF client
    THEN IF LLMScoreRaises(dims, resp)
         THEN [raised |-> TRUE, out |-> <<>>]
         ELSE [raised |-> FALSE,
               out |-> <<ScoredPaper(paper, _score_with_llm(dims, resp), "llm")>>]
    ELSE [raised |-> FALSE,
          out |-> <<ScoredPaper(paper, _score_heuristic(dims, topic, paper), "heuristic")>>]

\* The body of the loop of RelevanceRanker.score for one paper:
\* [raised, out], out the list of ScoredPaper it appends (one element)
ScoreOne(client, dims, topic, paper, resp) ==
    IF client /\ ~LLMScoreRaises(dims, resp)
    THEN [raised |-> FALSE,
          out |-> <<ScoredPaper(paper, _score_with_llm(dims, resp), "llm")>>]
    ELSE [raised |-> FALSE,
          out |-> <<ScoredPaper(paper, _score_heuristic(dims, topic, paper), "heuristic")>>]

\* `sum(dim.weight for dim in config.relevance.dimensions) or 1.0`
TotalWeight(dims) ==
    LET w == RatSum([ i \in DOMAIN dims |-> dims[i].weight ])
    IN  IF w.n = 0 THEN RatInt(1) ELSE w

\* `(scored.total_score / total_weight) * 100`
Normalised(total_score, dims) ==
    RatMul(RatDiv(total_score, TotalWeight(dims)), RatInt(100))

\* `sum(score.weight for score in scored_paper.scores) or 1.0`
ScoresWeight(scores) ==
    LET w == RatSum([ i \in DOMAIN scores |-> scores[i].weight ])
    IN  IF w.n = 0 THEN RatInt(1) ELSE w

\* ReportBuilder._normalised_score
_normalised_score(scored_paper) ==
    LET weighted_value == RatSum([ i \in DOMAIN scored_paper.scores |->
                              RatMul(scored_paper.scores[i].weight,
                                     scored_paper.scores[i].value) ])
    IN  RatMul(RatDiv(weighted_value, ScoresWeight(scored_paper.scores)), RatInt(100))

\* EmailDigest._format_score_value, on the score_details of the summary
_format_score_value(score_details) ==
    LET value == RatSum([ i \in DOMAIN score_details.scores |->
                     RatMul(score_details.scores[i].weight,
                            score_details.scores[i].value) ])
    IN  RatMul(RatDiv(value, ScoresWeight(score_details.scores)), RatInt(100))

\* f"{x:.1f}" for x >= 0: the nearest tenth, a tie going to the even digit
Format1f(x) ==
    LET q == (x.n * 10) \div x.d
        r == (x.n * 10) % x.d
        tenths == IF 2 * r > x.d \/ (2 * r = x.d /\ q % 2 = 1) THEN q + 1 ELSE q
    IN  ToString(tenths \div 10) \o "." \o ToString(tenths % 10)

\* StaticSiteBuilder._format_score
_format_score(scored_paper) ==
    LET value == RatSum([ i \in DOMAIN scored_paper.scores |->
                     RatMul(scored_paper.scores[i].weight,
                            scored_paper.scores[i].value) ])
    IN  Format1f(RatMul(RatDiv(value, ScoresWeight(scored_paper.scores)), RatInt(100)))

\* RelevanceRanker.score: [raised, out], out the list it returns
RECURSIVE score(_, _, _, _, _)
score(client, dims, topic, papers, resps) ==
    IF papers = <<>> THEN [raised |-> FALSE, out |-> <<>>]
    ELSE LET one == ScoreOne(client, dims, topic, Head(papers), Head(resps))
             rest == score(client, dims, topic, Tail(papers), Tail(resps))
         IN  IF one.raised \/ rest.raised
             THEN [raised |-> TRUE, out |-> <<>>]
             ELSE [raised |-> FALSE, out |-> one.out \o rest.out]

(***************************************************************************)
(* Texts                                                                   *)
(***************************************************************************)
\* a paragraph break "\n\n"
PB == "\n\n"
Blank(seg) == seg \in {WS, PB}

\* str.strip(): the whitespace at both ends goes
RECURSIVE LStrip(_)
LStrip(t) == IF t # <<>> /\ Blank(Head(t)) THEN LStrip(Tail(t)) ELSE t
RECURSIVE RStrip(_)
RStrip(t) == IF t # <<>> /\ Blank(t[Len(t)]) THEN RStrip(SubSeq(t, 1, Len(t) - 1)) ELSE t
Strip(t) == RStrip(LStrip(t))

\* t[:n]
Take(t, n) == SubSeq(t, 1, IF Len(t) < n THEN Len(t) ELSE n)
\* t[n:] (n counted from 0)
Drop(t, n) == SubSeq(t, n + 1, Len(t))

\* an Optional[str]: None, or a text
None == [isNone |-> TRUE, text |-> <<>>]
Some(t) == [isNone |-> FALSE, text |-> t]
\* Python's `not x` on an Optional[str]
Falsy(x) == x.isNone \/ x.text = <<>>

(***************************************************************************)
(* summaries/task_reader.py                                                *)
(***************************************************************************)
\* the offline demo candidate of workflow/pipeline.py for a topic
DemoPaper(topic) ==
    Paper("demo-" \o topic.name \o "-000000",
          { topic.include[i] : i \in DOMAIN topic.include } \cup {"novel", "experiment"},
          <<"This is offline demo data for pipeline verification.",
            "The paper explores directions, emphasizing novel methods.",
            "Applicable arXiv categories include them.">>, FALSE)

\* str.startswith("demo-") for the ids of the model
IsDemoId(id) == id \notin { p.arxiv_id : p \in PaperPool \cup {PaperS} }

(* Ar5ivParser.fetch_markdown: the outcomes of one call                     *)
(*   "nolib"  html2text or requests is missing: None, no request            *)
(*   "error"  the request raised or the status is an error: None            *)
(*   "empty"  the page converts to whitespace only: "" after strip()        *)
(*   "page"   a page within max_chars    "long"  a page cut at max_chars    *)
HtmlOutcomes == {"nolib", "error", "empty", "page", "long"}

HtmlPage == <<"Full text: we study dense retrieval.", WS,
              "The benchmark shows gains.", PB>>

\* Ar5ivParser.fetch_markdown
fetch_markdown(outcome) ==
    CASE outcome \in {"nolib", "error"} -> None
      [] outcome = "empty" -> Some(Strip(<<WS, PB>>))
      [] outcome = "page" -> Some(Strip(HtmlPage))
      [] OTHER -> Some(Strip(Take(HtmlPage, 1) \o <<PB, "... (truncated)">>))

(* PDFParser.fetch_text_from_pdf, as TaskReader sees it                     *)
(*   "raise"  an error escapes the call     "none"  it returns None         *)
(*   "text"   it returns the extracted text                                 *)
PdfOutcomes == {"raise", "none", "text"}

PdfText == <<"PDF text: a retrieval model.", "We run an ablation.">>

\* TaskReader._fallback_to_pdf: [value, calls]
_fallback_to_pdf(paper, client, outcome) ==
    IF ~client \/ ~paper.pdf_url
    THEN [value |-> None, calls |-> <<>>]
    ELSE [value |-> IF outcome = "text" THEN Some(PdfText) ELSE None,
          calls |-> <<"pdf">>]

\* ResolveContent asking the PDF fetcher whatever the HTML fetcher returned
ResolveContent_AlwaysPdf(paper, client, html, pdf) ==
    LET m1 == fetch_markdown(html)
        fb == _fallback_to_pdf(paper, client, pdf)
        m2 == IF Falsy(fb.value) THEN m1 ELSE fb.value
    IN  [markdown |-> IF Falsy(m2) THEN paper.abstract ELSE m2.text,
         source |-> IF ~Falsy(fb.value) THEN "pdf"
                    ELSE IF ~Falsy(m1) THEN "html" ELSE "abstract",
         html |-> m1, pdf |-> fb.value,
         calls |-> <<"html">> \o fb.calls]

\* TaskReader.analyse, lines 72-79: [markdown, source, html, pdf, calls];
\* source names where the content came from, html and pdf are what the two
\* fetchers returned (None when not asked)
ResolveContent(paper, client, html, pdf) ==
    IF IsDemoId(paper.arxiv_id)
    THEN [markdown |-> paper.abstract, source |-> "abstract",
          html |-> None, pdf |-> None, calls |-> <<>>]
    ELSE LET m1 == fetch_markdown(html)
             fb == IF Falsy(m1) THEN _fallback_to_pdf(paper, client, pdf)
                   ELSE [value |-> None, calls |-> <<>>]
             m2 == IF Falsy(m1) THEN fb.value ELSE m1
         IN  [markdown |-> IF Falsy(m2) THEN paper.abstract ELSE m2.text,
              source |-> IF ~Falsy(m1) THEN "html"
                         ELSE IF ~Falsy(m2) THEN "pdf" ELSE "abstract",
              html |-> m1, pdf |-> fb.value,
              calls |-> <<"html">> \o fb.calls]

\* TaskReader._split_sentences
_split_sentences(text) == SelectSeq(text, LAMBDA seg : ~Blank(seg))

\* TaskReader._brief_summary_heuristic
_brief_summary_heuristic(abstract) ==
    LET sentences == _split_sentences(abstract)
        first_chunk == Take(sentences, 3)
        second_chunk == Take(Drop(sentences, 3), 3)
    IN  IF sentences = <<>> THEN Strip(abstract)
        ELSE IF second_chunk # <<>> THEN first_chunk \o <<PB>> \o second_chunk
        ELSE first_chunk

(* The LLM's answer to the brief-summary request:                           *)
(*   "error" the call raised, "blank" whitespace only, "text" a summary     *)
BriefResponses == {"error", "blank", "text"}
BriefText == <<"Why it matters.", PB, "What is proposed and how.">>

\* TaskReader._generate_brief_summary: [value, calls]
_generate_brief_summary(client, paper, resp) ==
    IF ~client
    THEN [value |-> _brief_summary_heuristic(paper.abstract), calls |-> <<>>]
    ELSE [value |-> IF resp = "text" THEN Strip(BriefText)
                    ELSE _brief_summary_heuristic(paper.abstract),
          calls |-> <<"llm_brief">>]

(* The LLM's answer to the core-summary request: [kind, field, shape].      *)
(*   kind "error" / "notobject": the call, json.loads or data.get raised    *)
(*   kind "object": four fields hold a narrative; the field `field` is      *)
(*     "text" a narrative        "missing" absent from the object           *)
(*     "empty" ""                "blank" whitespace only                    *)
(*     "null" not a string (.strip() raises)                                *)
CoreFields == <<"problem", "solution", "methodology", "experiments", "conclusion">>
FieldShapes == {"text", "missing", "empty", "blank", "null"}
CoreResponses ==
    [ kind : {"error", "notobject"}, field : {"methodology"}, shape : {"text"} ] \cup
    [ kind : {"object"}, field : {"methodology"}, shape : FieldShapes ]

Placeholder == <<"No relevant information found">>
Narrative(name) == <<"Narrative of the " \o name \o ".", WS>>

\* data.get(name, "No relevant information found").strip()
CoreFieldValue(name, resp) ==
    IF name # resp.field \/ resp.shape = "text" THEN Strip(Narrative(name))
    ELSE IF resp.shape = "missing" THEN Strip(Placeholder)
    ELSE IF resp.shape = "empty" THEN Strip(<<>>)
    ELSE Strip(<<WS>>)

\* core/models.py CoreSummary, or None
NoCore == [present |-> FALSE, fields |-> [ i \in DOMAIN CoreFields |-> <<>> ]]
CoreSummary(resp) ==
    [present |-> TRUE,
     fields |-> [ i \in DOMAIN CoreFields |-> CoreFieldValue(CoreFields[i], resp) ]]

\* whether the try block of _generate_core_summary raises on this response
CoreRaises(resp) ==
    resp.kind \in {"error", "notobject"} \/ resp.shape = "null"

\* _generate_core_summary without its try/except: the error escapes
_generate_core_summary_NoExcept(client, resp) ==
    IF ~client
    THEN [raised |-> FALSE, value |-> NoCore, calls |-> <<>>]
    ELSE [raised |-> CoreRaises(resp),
          value |-> IF CoreRaises(resp) THEN NoCore ELSE CoreSummary(resp),
          calls |-> <<"llm_core">>]

\* TaskReader._generate_core_summary: [raised, value, calls]
_generate_core_summary(client, resp) ==
    IF ~client
    THEN [raised |-> FALSE, value |-> NoCore, calls |-> <<>>]
    ELSE [raised |-> FALSE,
          value |-> IF CoreRaises(resp) THEN NoCore ELSE CoreSummary(resp),
          calls |-> <<"llm_core">>]

\* core/models.py TaskItem
TaskItem(question, reason) == [question |-> question, reason |-> reason]

\* the two generic questions of the fallback
DefaultTasks ==
    << TaskItem("What is the main contribution of this paper?",
                "understand the core innovation"),
       TaskItem("How do the experiments validate the method?",
                "assess the reliability of the method") >>

DefaultReason == "understand the paper in depth"

(* The LLM's answer to the question-generation request: [kind, n, bad, shape] *)
(*   kind "error": the call or json.loads raised                              *)
(*   kind "notlist": "questions" is not a list (the slice raises)             *)
(*   kind "nokey": the object has no "questions" key                          *)
(*   kind "object": "questions" lists n items; item i asks question "q<i>"    *)
(*     with a reason, but item `bad` (0: none, or the last), whose shape is   *)
(*     "noreason" no reason given     "emptyq" question ""                    *)
(*     "blankq" question whitespace   "noq" no "question" key                 *)
(*     "scalar" the item is not an object (item.get raises)                   *)
ItemShapes == {"noreason", "emptyq", "blankq", "noq", "scalar"}
QuestionResponses ==
    [ kind : {"error", "notlist", "nokey"}, n : {0}, bad : {0}, shape : {"noreason"} ] \cup
    { r \in [ kind : {"object"}, n : 0..MaxLLMQuestions, bad : 0..MaxLLMQuestions,
              shape : ItemShapes ] :
        /\ r.bad \in {0, r.n}
        /\ r.bad = 0 => r.shape = "noreason" }

QName(i) == "q" \o ToString(i)

\* the tasks the loop over questions[:5] appends for item i
ItemTasks(i, resp) ==
    IF i # resp.bad THEN <<TaskItem(QName(i), "r" \o ToString(i))>>
    ELSE IF resp.shape = "noreason" THEN <<TaskItem(QName(i), DefaultReason)>>
    ELSE <<>>

RECURSIVE TasksFrom(_, _, _)
TasksFrom(i, last, resp) ==
    IF i > last THEN <<>> ELSE ItemTasks(i, resp) \o TasksFrom(i + 1, last, resp)

\* questions[:5]
QuestionLimit == 5

\* whether the try block of _generate_interest_questions raises
QuestionsRaise(resp) ==
    \/ resp.kind \in {"error", "notlist"}
    \/ /\ resp.kind = "object"
       /\ resp.shape = "scalar"
       /\ resp.bad \in 1..QuestionLimit

\* TaskReader._generate_interest_questions: [raised, tasks, calls]
_generate_interest_questions(client, interest_prompt, resp) ==
    IF ~client \/ interest_prompt = <<>>
    THEN [raised |-> FALSE, tasks |-> DefaultTasks, calls |-> <<>>]
    ELSE LET n == IF resp.kind = "object" THEN resp.n ELSE 0
             tasks == TasksFrom(1, IF n < QuestionLimit THEN n ELSE QuestionLimit, resp)
         IN  [raised |-> FALSE,
              tasks |-> IF QuestionsRaise(resp) \/ tasks = <<>> THEN DefaultTasks ELSE tasks,
              calls |-> <<"llm_questions">>]

\* the lowercased keywords a question splits into at its commas
QuestionKeywords(question) ==
    CASE question = "q1" -> {"retrieval", "benchmark"}
      [] question = "q2" -> {"theorem"}
      [] OTHER -> {question}

\* the keywords that occur in a sentence, lowercased
SentenceWords(seg) ==
    CASE seg = "We propose a novel retrieval method." -> {"retrieval"}
      [] seg = "Experiments on a benchmark dataset improve the state." -> {"benchmark"}
      [] seg = "Full text: we study dense retrieval." -> {"retrieval"}
      [] seg = "The benchmark shows gains." -> {"benchmark"}
      [] seg = "PDF text: a retrieval model." -> {"retrieval"}
      [] seg = "An unrelated theorem." -> {"theorem"}
      [] OTHER -> {}

\* the loop of _answer_heuristic: the first two sentences that hold a keyword
RECURSIVE Matched(_, _, _)
Matched(sentences, keywords, found) ==
    IF sentences = <<>> \/ Len(found) >= 2 THEN found
    ELSE Matched(Tail(sentences), keywords,
                 IF SentenceWords(Head(sentences)) \cap keywords # {}
                 THEN Append(found, Head(sentences)) ELSE found)

\* max(0.0, min(1.0, confidence)) on an ordinary float
Clamp1(c) == RatMax(RatInt(0), RatMin(RatInt(1), c))

\* TaskReader._answer_heuristic: [answer, confidence]
_answer_heuristic(task, markdown) ==
    LET sentences == _split_sentences(markdown)
        found == Matched(sentences, QuestionKeywords(task.question), <<>>)
        matched == IF found = <<>> THEN Take(sentences, 1) ELSE found
        answer == Strip(matched)
        confidence == RatAdd(Rat(4, 10), RatMul(Rat(3, 10), RatInt(Len(matched))))
    IN  [answer |-> IF answer = <<>> THEN <<"No sufficient information">> ELSE answer,
         confidence |-> Clamp1(confidence)]

(* The LLM's answer to one question: [kind, answer, conf].                    *)
(*   kind "error" / "notobject": the call, json.loads or data.get raised      *)
(*   kind "object": answer is "text", "missing", "empty", "blank" or "null"   *)
(*     (not a string: .strip() raises); conf is an entry [t, v]:              *)
(*     t "num" the number v, "nan" NaN, "text" not a number, "noscore" absent *)
ConfEntries == [ t : {"num"}, v : { Rat(0 - 1, 2), Rat(7, 10), Rat(3, 2) } ] \cup
               [ t : {"nan", "text", "noscore"}, v : {RatInt(0)} ]
NominalConf == [t |-> "num", v |-> Rat(7, 10)]

\* the first question is answered in every shape, the others in the nominal
\* shape or not at all
AnswerResponses(i) ==
    [ kind : {"error"}, answer : {"text"}, conf : {NominalConf} ] \cup
    [ kind : {"object"}, answer : {"text"}, conf : {NominalConf} ] \cup
    IF i = 1
    THEN [ kind : {"notobject"}, answer : {"text"}, conf : {NominalConf} ] \cup
         [ kind : {"object"}, answer : {"missing", "empty", "blank", "null"},
           conf : {NominalConf} ] \cup
         [ kind : {"object"}, answer : {"text"}, conf : ConfEntries ]
    ELSE {}

\* whether _answer_with_quotes raises on this response
AnswerRaises(resp) ==
    \/ resp.kind \in {"error", "notobject"}
    \/ resp.answer = "null"
    \/ resp.conf.t = "text"

\* TaskReader._answer_with_quotes, on a response it does not raise on.
\* min(1.0, nan) is 1.0 in Python.
_answer_with_quotes(task, resp) ==
    [answer |-> CASE resp.answer = "text" ->
                        Strip(<<"The paper answers " \o task.question \o ".", WS>>)
                  [] resp.answer = "missing" ->
                        Strip(<<"No sufficient information found in the paper.">>)
                  [] resp.answer = "empty" -> Strip(<<>>)
                  [] OTHER -> Strip(<<WS>>),
     confidence |-> CASE resp.conf.t = "noscore" -> Clamp1(Rat(1, 2))
                      [] resp.conf.t = "nan" -> RatInt(1)
                      [] OTHER -> Clamp1(resp.conf.v)]

\* core/models.py TaskFinding; path records which answerer produced it
TaskFinding(task, a, path) ==
    [task |-> task, answer |-> a.answer, confidence |-> a.confidence, path |-> path]

\* AnswerTask with the fallback of the except branch lost: a failed LLM
\* answer appends no finding
AnswerTask_DropOnFailure(client, task, markdown, resp) ==
    IF client
    THEN [raised |-> FALSE,
          out |-> IF AnswerRaises(resp)
                  THEN <<>>
                  ELSE <<TaskFinding(task, _answer_with_quotes(task, resp), "llm")>>,
          calls |-> <<"llm_answer">>]
    ELSE [raised |-> FALSE,
          out |-> <<TaskFinding(task, _answer_heuristic(task, markdown), "heuristic")>>,
          calls |-> <<>>]

\* TaskReader.analyse, lines 92-102, one iteration: [raised, out, calls],
\* out the findings it appends
AnswerTask(client, task, markdown, resp) ==
    IF client
    THEN [raised |-> FALSE,
          out |-> IF AnswerRaises(resp)
                  THEN <<TaskFinding(task, _answer_heuristic(task, markdown), "heuristic")>>
                  ELSE <<TaskFinding(task, _answer_with_quotes(task, resp), "llm")>>,
          calls |-> <<"llm_answer">>]
    ELSE [raised |-> FALSE,
          out |-> <<TaskFinding(task, _answer_heuristic(task, markdown), "heuristic")>>,
          calls |-> <<>>]

\* "\n\n".join(texts)
RECURSIVE JoinPB(_)
JoinPB(texts) ==
    IF texts = <<>> THEN <<>>
    ELSE IF Len(texts) = 1 THEN Head(texts)
    ELSE Head(texts) \o <<PB>> \o JoinPB(Tail(texts))

\* TaskReader._build_overview
_build_overview(paper, findings) ==
    LET answers == [ i \in DOMAIN findings |-> findings[i].answer ]
        highlights == SelectSeq(answers, LAMBDA a : a # <<>> /\ Strip(a) # <<>>)
    IN  IF findings = <<>> \/ highlights = <<>> THEN Strip(paper.abstract)
        ELSE JoinPB(highlights)

(***************************************************************************)
(* TaskReader.analyse as one call                                          *)
(***************************************************************************)
\* the findings `for task in tasks` (lines 91-102) appends from task i on;
\* resps[i] is the LLM's answer to question i
RECURSIVE AnswerAll(_, _, _, _, _)
AnswerAll(client, tasks, markdown, resps, i) ==
    IF i > Len(tasks) THEN <<>>
    ELSE AnswerTask(client, tasks[i], markdown, resps[i]).out
         \o AnswerAll(client, tasks, markdown, resps, i + 1)

\* the calls the loop of lines 92-102 makes
RECURSIVE AnswerCalls(_, _, _, _, _)
AnswerCalls(client, tasks, markdown, resps, i) ==
    IF i > Len(tasks) THEN <<>>
    ELSE AnswerTask(client, tasks[i], markdown, resps[i]).calls
         \o AnswerCalls(client, tasks, markdown, resps, i + 1)

\* TaskReader.analyse; env holds the outcome of every call it makes:
\* [html, pdf, brief, core, questions, answers]
analyse(client, paper, interest_prompt, env) ==
    LET c == ResolveContent(paper, client, env.html, env.pdf)
        b == _generate_brief_summary(client, paper, env.brief)
        k == _generate_core_summary(client, env.core)
        q == _generate_interest_questions(client, interest_prompt, env.questions)
        findings == AnswerAll(client, q.tasks, c.markdown, env.answers, 1)
    IN  [raised |-> k.raised \/ q.raised,
         core_summary |-> k.value, tasks |-> q.tasks, findings |-> findings,
         overview |-> _build_overview(paper, findings),
         brief_summary |-> b.value, markdown |-> c.markdown,
         calls |-> c.calls \o b.calls \o k.calls \o q.calls
                   \o AnswerCalls(client, q.tasks, c.markdown, env.answers, 1)]

(***************************************************************************)
(* summaries/report_builder.py and workflow/pipeline.py                    *)
(***************************************************************************)
\* the sections of the report, in the order build() writes them
ReportSections(core_summary, brief_summary) ==
    <<"title">> \o (IF brief_summary # <<>> THEN <<"brief">> ELSE <<>>)
    \o <<"meta", "scores">>
    \o (IF core_summary.present THEN <<"core">> ELSE <<>>)
    \o <<"questions", "answers", "overview", "recommendation">>

\* ReportBuilder.build: the PaperSummary it returns
build(topic, scored_paper, core_summary, task_list, findings, overview, brief_summary) ==
    [paper |-> scored_paper.paper, topic |-> topic.name,
     core_summary |-> core_summary, task_list |-> task_list,
     findings |-> findings, overview |-> overview,
     score_details |-> scored_paper,
     markdown |-> ReportSections(core_summary, brief_summary),
     brief_summary |-> brief_summary]

\* _filter_by_threshold comparing the raw total_score with the threshold
_filter_by_threshold_Raw(scored_papers, config) ==
    SelectSeq(scored_papers,
              LAMBDA scored : RatLE(config.pass_threshold, scored.total_score))

\* workflow/pipeline.py _filter_by_threshold
_filter_by_threshold(scored_papers, config) ==
    SelectSeq(scored_papers,
              LAMBDA scored : RatLE(config.pass_threshold,
                                    Normalised(scored.total_score, config.dimensions)))

\* config.runtime.paper_limit: None or a number
NoLimit == [isNone |-> TRUE, n |-> 0]
Limit(n) == [isNone |-> FALSE, n |-> n]

\* ApplyLimit keeping the last paper_limit candidates
ApplyLimit_Last(candidates, paper_limit) ==
    IF paper_limit.isNone THEN candidates
    ELSE IF Len(candidates) <= paper_limit.n THEN candidates
    ELSE Drop(candidates, Len(candidates) - paper_limit.n)

\* candidates[: paper_limit] when a limit is set
ApplyLimit(candidates, paper_limit) ==
    IF paper_limit.isNone THEN candidates ELSE Take(candidates, paper_limit.n)

\* the topics of the configuration
PipelineTopics == <<TopicList[1], TopicList[3]>>

\* the configurations run_pipeline is run on, overrides applied.  api_key
\* stands for `openai_config.api_key and OpenAI is not None`.
PipelineConfigs ==
    [ mode : {"online", "offline"}, api_key : BOOLEAN,
      dimensions : { d \in DimConfigs :
                       d # <<>> /\ RatSum([ i \in DOMAIN d |-> d[i].weight ]).n # 0 },
      pass_threshold : {RatInt(60)},
      paper_limit : {NoLimit, Limit(1)},
      topics : {PipelineTopics} ]

\* HasClient not looking at the mode
HasClient_AnyMode(config) == config.api_key

\* RelevanceRanker.__init__ and TaskReader.__init__: whether _client is set
HasClient(config) == config.mode = "online" /\ config.api_key

\* topic.interest_prompt as the reader sees it: a text, "" when not set
PromptText(topic) ==
    IF topic.interest_prompt = {} THEN <<>>
    ELSE <<"interest prompt of " \o topic.name>>

\* what arxiv_client.fetch_for_topic returns to run_pipeline: the first
\* candidates of the topic's feed
Feed == <<PaperB, PaperA, PaperC>>
FetchResults == { Take(Feed, k) : k \in 0..MaxFetched }

\* the LLM's answers to the scoring requests of run_pipeline: a high or a
\* low score on every dimension
PipelineRankResponses ==
    [ kind : {"object"}, entry : [ t : {"num"}, v : {RatInt(0 - 20), RatInt(130)} ],
      missing : {{}} ]

\* the stages of analyse whose LLM call fails, as run_pipeline is run
ReadStages == {"html", "brief", "core", "questions", "answers"}
PipelineFailures == {{}, {"core"}, ReadStages \ {"core"}}

\* the outcomes of the calls of one analyse in which the calls of the stages
\* in `failing` fail (html: the page fetch; the others: the LLM call) and
\* the others answer in the nominal shape
ReadEnv(failing) ==
    [html |-> IF "html" \in failing THEN "error" ELSE "page", pdf |-> "text",
     brief |-> IF "brief" \in failing THEN "error" ELSE "text",
     core |-> [kind |-> IF "core" \in failing THEN "error" ELSE "object",
               field |-> "methodology", shape |-> "text"],
     questions |-> IF "questions" \in failing
                   THEN [kind |-> "error", n |-> 0, bad |-> 0, shape |-> "noreason"]
                   ELSE [kind |-> "object", n |-> 3, bad |-> 0, shape |-> "noreason"],
     answers |-> [ i \in 1..QuestionLimit |->
                     [kind |-> IF "answers" \in failing THEN "error" ELSE "object",
                      answer |-> "text", conf |-> NominalConf] ]]

\* the outcomes of site_builder.build and of email_digest.send:
\*   site  "written", or "raise" (rmtree, mkdir or write_text raised)
\*   email "skipped" (disabled or not configured), "sent", "smtp_error"
\*         (caught inside send), or "raise" (_build_body or
\*         subject_template.format raised, outside the try of send)
SiteOutcomes == {"written", "raise"}
EmailOutcomes == {"skipped", "sent", "smtp_error", "raise"}

\* the locals of run_pipeline before the topic loop.  log: the calls made to
\* the collaborators, in order; fetches: what the archive client returned,
\* call by call, with the candidates after the demo substitution; ranked:
\* what the ranker returned, call by call; failures[k]: the stages whose
\* LLM call failed while summaries[k] was read; calls[k]: the requests the
\* reader made for summaries[k]; crash: the call whose error ended the run
PipeLocals ==
    [topic_index |-> 1, candidates |-> <<>>, scored |-> <<>>, selected |-> <<>>,
     paper_index |-> 1, summaries |-> <<>>, total_fetched |-> 0,
     total_selected |-> 0, log |-> <<>>, fetches |-> <<>>, ranked |-> <<>>,
     failures |-> <<>>, calls |-> <<>>, crash |-> "none"]

(***************************************************************************)
(* fetchers/arxiv_client.py                                                *)
(***************************************************************************)
\* the clock, in days: datetime.utcnow() and fetch_config.days_back
Now == 10
DaysBack == 7

\* `published` of a feed entry or of a library result: a time, or missing /
\* unparsable (None for a library result)
Time(t) == [ok |-> TRUE, t |-> t]
NoTime == [ok |-> FALSE, t |-> 0]
\* older than the window, inside it (twice), in the future, unreadable
PublishedShapes == {Time(1), Time(5), Time(8), Time(12), NoTime}

\* an entry of the Atom feed, or a result of the arxiv library
FeedEntries == [ paper : {PaperA, PaperB, PaperS}, has_id : BOOLEAN,
                 published : PublishedShapes ]
Feeds == SeqsUpTo({ e \in FeedEntries : e.has_id \/ e.published = Time(5) }, MaxFeed)

\* core/models.py PaperCandidate as the archive client builds it
Candidate(paper, published) == [paper |-> paper, published |-> published]

\* ArxivClient._parse_fallback_response on a well-formed feed
RECURSIVE _parse_fallback_response(_, _)
_parse_fallback_response(entries, threshold_date) ==
    IF entries = <<>> THEN <<>>
    ELSE LET entry == Head(entries)
             published_dt == IF entry.published.ok THEN entry.published.t ELSE Now
             rest == _parse_fallback_response(Tail(entries), threshold_date)
         IN  IF ~entry.has_id \/ published_dt < threshold_date
             THEN rest
             ELSE <<Candidate(entry.paper, published_dt)>> \o rest

(* One request of _fallback_fetch: [kind, entries]                          *)
(*   "transport"  requests.get raised                                       *)
(*   "status"     raise_for_status raised on an HTTP error status           *)
(*   "badxml"     ET.fromstring raised on the body                          *)
(*   "invalid"    the body parses, has no entry and no totalResults         *)
(*   "feed"       a feed of the archive with these entries and totalResults *)
UrlOutcomes ==
    [ kind : {"transport", "status", "badxml", "invalid"}, entries : {<<>>} ] \cup
    [ kind : {"feed"}, entries : Feeds ]

\* whether the request ended in an exception inside the try of the loop
UrlRaises(outcome) == outcome.kind \in {"transport", "status", "badxml"}

\* the URLs _fallback_fetch tries, in order
urls == <<"https", "http">>

(* One run of the loop over self._client.results(search): the library       *)
(* yields `entries` and raises after the first `good` of them when `error`  *)
LibOutcomes ==
    { o \in [ entries : Feeds, error : BOOLEAN, good : 0..MaxFeed ] :
        /\ o.good <= Len(o.entries)
        /\ ~o.error => o.good = Len(o.entries)
        /\ \A i \in DOMAIN o.entries : o.entries[i].has_id }

\* lines 102-142: the candidates appended to `papers` while the results
\* are iterated, up to max_papers_per_topic of them
RECURSIVE LibraryPapers(_, _, _, _)
LibraryPapers(results, threshold_date, max_papers, papers) ==
    IF results = <<>> THEN papers
    ELSE LET result == Head(results)
             skip == result.published.ok /\ result.published.t < threshold_date
             candidate == Candidate(result.paper,
                                    IF result.published.ok THEN result.published.t ELSE Now)
         IN  IF skip THEN LibraryPapers(Tail(results), threshold_date, max_papers, papers)
             ELSE IF Len(papers) + 1 >= max_papers THEN Append(papers, candidate)
             ELSE LibraryPapers(Tail(results), threshold_date, max_papers,
                                Append(papers, candidate))

\* the locals of fetch_for_topic before its first statement.  url: the index
\* of the next URL of _fallback_fetch; requests: the requests made so far,
\* each with how it ended, whether the endpoint served it and how long the
\* call had slept since the request before it; slept: the time slept since
\* the last request
FetchLocals == [papers |-> <<>>, url |-> 1, requests |-> <<>>, slept |-> 0]

\* lines 137-142: sleep(request_delay) follows every appended paper but the
\* one that reaches max_papers_per_topic, where the loop breaks first
LibrarySleeps(papers, max_papers) ==
    IF Len(papers) >= max_papers THEN Len(papers) - 1 ELSE Len(papers)

FetchIdle ==
    /\ ft_pc = "idle"
    /\ ft_in = [requests |-> FALSE, arxiv |-> FALSE, max_papers_per_topic |-> 1,
                 topic |-> TopicList[1], request_delay |-> 1]
    /\ ft = FetchLocals

(***************************************************************************)
(* publisher/static_site.py                                                *)
(***************************************************************************)
\* the names of the configured topics, and what build reads of a
\* PaperSummary: summary.topic.name and summary.paper.arxiv_id
SiteTopics == <<"retrieval", "testing">>
SiteSummaries ==
    SeqsUpTo([ topic : { SiteTopics[i] : i \in DOMAIN SiteTopics },
               arxiv_id : {"2401.00001", "2401.00002"} ], MaxSummaries)

\* lines 105-107: topic_groups, a dict in insertion order, as the sequence of
\* its keys: the topic names in the order of their first summary
RECURSIVE GroupNames(_, _)
GroupNames(summaries, seen) ==
    IF summaries = <<>> THEN seen
    ELSE GroupNames(Tail(summaries),
                    IF \E i \in DOMAIN seen : seen[i] = Head(summaries).topic
                    THEN seen ELSE Append(seen, Head(summaries).topic))

\* topic_groups[name]
Group(summaries, name) == SelectSeq(summaries, LAMBDA x : x.topic = name)

\* the path of the page of a summary (lines 111-114)
PagePath(summary) == "topics/" \o summary.topic \o "/" \o summary.arxiv_id \o ".html"

\* lines 123-130: the "topics" object of the manifest
ManifestTopics(summaries) ==
    LET names == GroupNames(summaries, <<>>)
    IN  [ name \in { names[i] : i \in DOMAIN names } |->
            LET items == Group(summaries, name)
            IN  [ i \in DOMAIN items |-> items[i].arxiv_id ] ]

\* the locals of build before its first statement.  group, item: the
\* position of the two loops over the pages; files: the files written;
\* failed: the files whose write failed; manifest: the topics written to
\* manifest.json
SiteLocals ==
    [names |-> <<>>, group |-> 1, item |-> 1, files |-> {}, failed |-> {},
     manifest |-> [ name \in {} |-> <<>> ]]

SiteIdle ==
    /\ st_pc = "idle"
    /\ st_in = [summaries |-> <<>>]
    /\ st = SiteLocals

(***************************************************************************)
(* publisher/email_digest.py                                               *)
(***************************************************************************)
\* The attributes of the configuration objects send may be given: the
\* EmailConfig of core/models.py (the annotated type), the EmailConfig
\* load_pipeline_config builds (what run_pipeline hands over), and an object
\* with every attribute send reads.
EmailAttributes ==
    [models |-> {"enabled", "sender", "recipients", "subject_template"},
     loader |-> {"enabled", "sender", "sender_password", "smtp_host", "smtp_port",
                 "use_tls", "recipients", "subject_template"},
     smtp   |-> {"enabled", "sender", "recipients", "subject_template", "smtp_host",
                 "smtp_port", "username", "password", "use_ssl", "use_tls", "timeout"}]

\* getattr(config, name) raises AttributeError
Lacks(config, name) == name \notin EmailAttributes[config.shape]

\* the configurations: the strings by whether they are non-empty, the
\* subject template by the names of its replacement fields
EmailConfigs ==
    [shape : {"models", "loader", "smtp"}, enabled : BOOLEAN, sender : BOOLEAN,
     recipients : {<<>>, <<"reader@example.org">>}, smtp_host : BOOLEAN,
     username : BOOLEAN, password : BOOLEAN, use_ssl : BOOLEAN, use_tls : BOOLEAN,
     subject_template : {{"run_date"}, {"topic"}}]

\* the keys of subject_context: those run_pipeline passes (pipeline.py
\* 119-122), and none
SubjectContexts == {{"run_date", "paper_count"}, {}}

\* str.format(**subject_context) raises KeyError on a field that is no key
FormatRaises(template, context) == ~(template \subseteq context)

\* what send did: connected, an SMTP connection was opened (or its opening
\* attempted); logged, the except clause ran; error, the exception that
\* left send
MailLocals == [connected |-> FALSE, sent |-> FALSE, logged |-> FALSE, error |-> "none"]

MailIdle ==
    /\ em_pc = "idle"
    /\ em_in = [config |-> [shape |-> "models", enabled |-> FALSE, sender |-> FALSE,
                            recipients |-> <<>>, smtp_host |-> FALSE, username |-> FALSE,
                            password |-> FALSE, use_ssl |-> FALSE, use_tls |-> FALSE,
                            subject_template |-> {"run_date"}],
                subject_context |-> {}]
    /\ em = MailLocals

(***************************************************************************)
(* workflow/cli.py                                                         *)
(***************************************************************************)
\* the process before main is entered.  interrupted: a KeyboardInterrupt
\* (the interrupt signal of the terminal or of the job runner) was raised
\* in the run; at_interrupt: the number of summaries completed then;
\* exit_code: the status the interpreter ends with
CliLocals == [interrupted |-> FALSE, at_interrupt |-> 0, exit_code |-> 0]

CliIdle ==
    /\ cl_pc = "idle"
    /\ cl = CliLocals

(***************************************************************************)
(* fetchers/pdf_parser.py                                                  *)
(***************************************************************************)
\* the lengths of the text the extraction may return, and the values of
\* max_chars the parser is called with
PdfTextLengths == {0, 2, 4, 6}
PdfMaxChars == {1, 3, 5}

\* the text fetch_text_from_pdf returns: None, or a text by its length and
\* whether the truncation note was appended
NoPdfText == [isNone |-> TRUE, len |-> 0, truncated |-> FALSE]
SomePdfText(n) == [isNone |-> FALSE, len |-> n, truncated |-> FALSE]

\* lines 66-67
TruncatePdfText(text, max_chars) ==
    IF ~text.isNone /\ text.len > 0 /\ text.len > max_chars
    THEN [isNone |-> FALSE, len |-> max_chars, truncated |-> TRUE]
    ELSE text

\* the locals of fetch_text_from_pdf and _parse_with_llm.  disk: the
\* temporary files of the call that exist; remote: the files of the call on
\* the file API; log: the calls made
PdfLocals ==
    [tmp_path |-> None, uploaded_file_id |-> None, text_content |-> NoPdfText,
     disk |-> {}, remote |-> {}, failed |-> "none", log |-> <<>>]

PdfIdle ==
    /\ pf_pc = "idle"
    /\ pf_in = [requests |-> FALSE, client |-> FALSE, model |-> FALSE, max_chars |-> 3]
    /\ pf = PdfLocals

(***************************************************************************)
(* GitHubClient._make_request (github_uploader/github_client.py)           *)
(***************************************************************************)
\* the largest max_retries tried
MaxRetries == 3

\* how one requests.request + raise_for_status ends: a response, or one of
\* the RequestException subclasses
GhOutcomes == {"ok", "HTTPError", "ConnectionError", "Timeout"}

\* line 101: `retry_delay * (2 ** attempt)` with every doubling one step later
Backoff_Late(retry_delay, attempt) ==
    retry_delay * (IF attempt = 0 THEN 1 ELSE 2 ^ (attempt - 1))

\* line 101: `retry_delay * (2 ** attempt)`
Backoff(retry_delay, attempt) == retry_delay * (2 ^ attempt)

\* the exception raised by the attempt, and no exception
GhException(kind, attempt) == [kind |-> kind, attempt |-> attempt]
NoException == [kind |-> "none", attempt |-> 0 - 1]

\* the locals of _make_request before its loop.  attempt: the loop variable;
\* requests: how each request made so far ended; sleeps: the time.sleep
\* calls so far, each with the attempt it followed; response: the attempt
\* whose response was returned; raised: the exception that left the call
GhLocals ==
    [attempt |-> 0, last_exception |-> NoException, requests |-> <<>>,
     sleeps |-> <<>>, response |-> 0 - 1, raised |-> NoException]

GhIdle ==
    /\ gh_pc = "idle"
    /\ gh_in = [max_retries |-> 0, retry_delay |-> 2]
    /\ gh = GhLocals

(***************************************************************************)
(* The components at rest                                                  *)
(***************************************************************************)
RankerIdle ==
    /\ rk_pc = "idle"
    /\ rk_in = [client |-> FALSE, dims |-> <<>>, topic |-> TopicList[1], papers |-> <<>>]
    /\ rk_out = [ i |-> 1, failed |-> {}, scored |-> <<>> ]

PipeIdle ==
    /\ pl_pc = "idle"
    /\ pl_cfg = [mode |-> "offline", api_key |-> FALSE, dimensions |-> <<>>,
                 pass_threshold |-> RatInt(60), paper_limit |-> NoLimit,
                 topics |-> <<>>]
    /\ pl = PipeLocals

(***************************************************************************)
(* SpecReader: TaskReader.analyse on one paper, one stage per step         *)
(***************************************************************************)
ReaderPapers == {PaperA, PaperC, DemoPaper(TopicList[1])}
\* topic.interest_prompt as the reader sees it: a text, possibly ""
Prompts == { <<>>, <<"dense retrieval for question answering">> }

\* the locals of analyse before its first statement.  content: what content
\* resolution did; i: the index of `for task in tasks`; failed: the stages
\* whose LLM call failed
ReaderLocals ==
    [markdown |-> <<>>, brief_summary |-> <<>>, core_summary |-> NoCore,
     tasks |-> <<>>, findings |-> <<>>, overview |-> <<>>,
     content |-> [source |-> "none", html |-> None, pdf |-> None],
     i |-> 1, calls |-> <<>>, failed |-> {}]

ReaderIdle ==
    /\ rd_pc = "idle"
    /\ rd_in = [paper |-> PaperB, interest_prompt |-> <<>>, client |-> FALSE,
                max_question_retries |-> 2]
    /\ rd = ReaderLocals

ReaderInit ==
    /\ rd_pc = "content"
    /\ rd_in \in [paper : ReaderPapers, interest_prompt : Prompts, client : BOOLEAN,
                  max_question_retries : {0, 2}]
    /\ rd = ReaderLocals
    /\ RankerIdle
    /\ PipeIdle
    /\ FetchIdle
    /\ SiteIdle
    /\ MailIdle
    /\ CliIdle
    /\ PdfIdle
    /\ GhIdle

\* the next position: "raised" when an error escapes the stage
After(raised, next) == IF raised THEN "raised" ELSE next

\* lines 72-79: content resolution
ReaderContent ==
    /\ rd_pc = "content"
    /\ \E html \in HtmlOutcomes, pdf \in PdfOutcomes :
          LET r == ResolveContent(rd_in.paper, rd_in.client, html, pdf)
          IN  rd' = [rd EXCEPT !.markdown = r.markdown, !.calls = @ \o r.calls,
                               !.content = [source |-> r.source, html |-> r.html,
                                            pdf |-> r.pdf]]
    /\ rd_pc' = "brief"
    /\ UNCHANGED <<rd_in, rankVars, pipeVars, fetchVars, siteVars, mailVars, cliVars, pdfVars, ghVars>>

\* line 82: brief summary.  rd.failed keeps the stages whose LLM call failed.
ReaderBrief ==
    /\ rd_pc = "brief"
    /\ \E resp \in BriefResponses :
          LET r == _generate_brief_summary(rd_in.client, rd_in.paper, resp)
          IN  rd' = [rd EXCEPT !.brief_summary = r.value, !.calls = @ \o r.calls,
                               !.failed = @ \cup IF rd_in.client /\ resp = "error"
                                                 THEN {"brief"} ELSE {}]
    /\ rd_pc' = "core"
    /\ UNCHANGED <<rd_in, rankVars, pipeVars, fetchVars, siteVars, mailVars, cliVars, pdfVars, ghVars>>

\* line 85: core summary
ReaderCore ==
    /\ rd_pc = "core"
    /\ \E resp \in CoreResponses :
          LET r == _generate_core_summary(rd_in.client, resp)
          IN  /\ rd' = [rd EXCEPT !.core_summary = r.value, !.calls = @ \o r.calls,
                                  !.failed = @ \cup IF rd_in.client /\ CoreRaises(resp)
                                                    THEN {"core"} ELSE {}]
              /\ rd_pc' = After(r.raised, "questions")
    /\ UNCHANGED <<rd_in, rankVars, pipeVars, fetchVars, siteVars, mailVars, cliVars, pdfVars, ghVars>>

\* line 88: interest questions
ReaderQuestions ==
    /\ rd_pc = "questions"
    /\ \E resp \in QuestionResponses :
          LET r == _generate_interest_questions(rd_in.client, rd_in.interest_prompt, resp)
          IN  /\ rd' = [rd EXCEPT !.tasks = r.tasks, !.calls = @ \o r.calls,
                                  !.failed = @ \cup
                                      IF r.calls # <<>> /\ QuestionsRaise(resp)
                                      THEN {"questions"} ELSE {}]
              /\ rd_pc' = After(r.raised, "answers")
    /\ UNCHANGED <<rd_in, rankVars, pipeVars, fetchVars, siteVars, mailVars, cliVars, pdfVars, ghVars>>

\* lines 92-102: one iteration of `for task in tasks`
ReaderAnswer ==
    /\ rd_pc = "answers"
    /\ rd.i <= Len(rd.tasks)
    /\ LET i == rd.i IN
       \E resp \in AnswerResponses(i) :
          LET r == AnswerTask(rd_in.client, rd.tasks[i], rd.markdown, resp)
          IN  /\ rd' = [rd EXCEPT !.findings = @ \o r.out, !.calls = @ \o r.calls,
                                  !.i = i + 1,
                                  !.failed = @ \cup IF rd_in.client /\ AnswerRaises(resp)
                                                    THEN {QName(i)} ELSE {}]
              /\ rd_pc' = After(r.raised, "answers")
    /\ UNCHANGED <<rd_in, rankVars, pipeVars, fetchVars, siteVars, mailVars, cliVars, pdfVars, ghVars>>

\* lines 105-107: overview and return
ReaderReturn ==
    /\ rd_pc = "answers"
    /\ rd.i > Len(rd.tasks)
    /\ rd' = [rd EXCEPT !.overview = _build_overview(rd_in.paper, rd.findings)]
    /\ rd_pc' = "returned"
    /\ UNCHANGED <<rd_in, rankVars, pipeVars, fetchVars, siteVars, mailVars, cliVars, pdfVars, ghVars>>

ReaderNext ==
    \/ ReaderContent \/ ReaderBrief \/ ReaderCore
    \/ ReaderQuestions \/ ReaderAnswer \/ ReaderReturn

SpecReader == ReaderInit /\ [][ReaderNext]_vars

(***************************************************************************)
(* Claims about the reading engine                                         *)
(***************************************************************************)
\* C4: when analyse returns, the findings list is as long as the task list
\* and findings[i].task is task_list[i] for every i, whatever LLM answers
\* succeeded or failed; while the loop runs, the findings are aligned with
\* the tasks already visited.
C4_FindingsAligned ==
    /\ rd_pc \in {"answers", "returned"} =>
          /\ Len(rd.findings) = rd.i - 1
          /\ \A i \in DOMAIN rd.findings :
                i <= Len(rd.tasks) /\ rd.findings[i].task = rd.tasks[i]
    /\ rd_pc = "returned" => Len(rd.findings) = Len(rd.tasks)

\* C4 witness: analyse returned with a client, three or more tasks, the first
\* answered by the LLM and the second by the heuristic after an LLM failure
C4_Witness ==
    /\ rd_pc = "returned"
    /\ rd_in.client
    /\ Len(rd.tasks) >= 3
    /\ Len(rd.findings) = Len(rd.tasks)
    /\ rd.findings[1].path = "llm"
    /\ rd.findings[2].path = "heuristic"
    /\ "q2" \in rd.failed

\* C5 (as claimed): once stage 3 is over, the task list has between 3 and 5
\* items, whatever the LLM did.
C5_TaskCountThreeToFive ==
    rd_pc \in {"answers", "returned"} => Len(rd.tasks) >= 3 /\ Len(rd.tasks) <= 5

\* C9 (as claimed): the HTML fetcher is always asked first; the PDF fetcher is
\* asked only after a null or empty HTML result and only with a client; the
\* abstract is used only after both gave nothing; no error escapes.
C9_HtmlAlwaysFirst ==
    rd_pc # "content" /\ rd_pc # "idle" =>
        /\ rd_pc # "raised"
        /\ rd.calls # <<>> /\ rd.calls[1] = "html"
        /\ \A k \in DOMAIN rd.calls :
              rd.calls[k] = "pdf" => k > 1 /\ Falsy(rd.content.html) /\ rd_in.client
        /\ rd.content.source = "abstract" =>
              Falsy(rd.content.html) /\ Falsy(rd.content.pdf)

\* the fetcher calls among the calls
FetcherCalls(calls) == SelectSeq(calls, LAMBDA c : c \in {"html", "pdf"})

\* C9 (amended): for a paper that is not a demo candidate the sources are
\* tried in the order HTML, PDF, abstract, stopping at the first non-empty
\* one: the HTML fetcher is asked first; the PDF fetcher is asked once, and
\* only after a null or empty HTML result, with a client and a pdf_url; the
\* content is the first non-empty of the three; no error escapes.  For a
\* demo candidate no fetcher is asked and the abstract is the content.
C9_ContentOrder ==
    rd_pc # "content" /\ rd_pc # "idle" =>
        /\ rd_pc # "raised"
        /\ IF IsDemoId(rd_in.paper.arxiv_id)
           THEN /\ FetcherCalls(rd.calls) = <<>>
                /\ rd.content.source = "abstract"
                /\ rd.markdown = rd_in.paper.abstract
           ELSE /\ FetcherCalls(rd.calls) \in {<<"html">>, <<"html", "pdf">>}
                /\ FetcherCalls(rd.calls) = <<"html", "pdf">> =>
                      Falsy(rd.content.html) /\ rd_in.client /\ rd_in.paper.pdf_url
                /\ rd.content.source = "html" <=> ~Falsy(rd.content.html)
                /\ rd.content.source = "html" => rd.markdown = rd.content.html.text
                /\ rd.content.source = "pdf" =>
                      /\ Falsy(rd.content.html) /\ ~Falsy(rd.content.pdf)
                      /\ rd.markdown = rd.content.pdf.text
                /\ rd.content.source = "abstract" =>
                      /\ Falsy(rd.content.html) /\ Falsy(rd.content.pdf)
                      /\ rd.markdown = rd_in.paper.abstract

\* C9 witness: after a failed HTML fetch the PDF fetcher was asked and gave
\* nothing, so the abstract became the content, and analyse went on
C9_Witness ==
    /\ rd_pc = "returned"
    /\ ~IsDemoId(rd_in.paper.arxiv_id)
    /\ FetcherCalls(rd.calls) = <<"html", "pdf">>
    /\ rd.content.html.isNone
    /\ rd.content.pdf.isNone
    /\ rd.content.source = "abstract"
    /\ rd.markdown = rd_in.paper.abstract

(***************************************************************************)
(* SpecRanker: RelevanceRanker.score on every input, one iteration of its  *)
(* loop (one LLM call) per step                                            *)
(***************************************************************************)
RankerInit ==
    /\ rk_pc = "loop"
    /\ rk_in \in [ client : BOOLEAN, dims : DimConfigs,
                   topic : { TopicList[i] : i \in DOMAIN TopicList },
                   papers : SeqsUpTo(PaperPool, MaxPapers) ]
    /\ rk_out = [ i |-> 1, failed |-> {}, scored |-> <<>> ]
    /\ ReaderIdle
    /\ PipeIdle
    /\ FetchIdle
    /\ SiteIdle
    /\ MailIdle
    /\ CliIdle
    /\ PdfIdle
    /\ GhIdle

\* `for paper in papers:` one iteration; resp is the LLM's answer for this
\* paper (not looked at when there is no client).  rk_out.failed keeps the
\* indices of the papers whose LLM scoring failed.
RankerStep ==
    /\ rk_pc = "loop"
    /\ rk_out.i <= Len(rk_in.papers)
    /\ \E resp \in RankResponses(rk_in.dims) :
          LET i == rk_out.i
              r == ScoreOne(rk_in.client, rk_in.dims, rk_in.topic, rk_in.papers[i], resp)
          IN  /\ rk_pc' = IF r.raised THEN "raised" ELSE "loop"
              /\ rk_out' = [ i |-> i + 1,
                             failed |-> rk_out.failed \cup
                                 IF rk_in.client /\ LLMScoreRaises(rk_in.dims, resp)
                                 THEN {i} ELSE {},
                             scored |-> rk_out.scored \o r.out ]
    /\ UNCHANGED rk_in
    /\ UNCHANGED <<readVars, pipeVars, fetchVars, siteVars, mailVars, cliVars, pdfVars, ghVars>>

\* `return scored`
RankerReturn ==
    /\ rk_pc = "loop"
    /\ rk_out.i > Len(rk_in.papers)
    /\ rk_pc' = "returned"
    /\ UNCHANGED <<rk_in, rk_out>>
    /\ UNCHANGED <<readVars, pipeVars, fetchVars, siteVars, mailVars, cliVars, pdfVars, ghVars>>

RankerNext == RankerStep \/ RankerReturn

SpecRanker == RankerInit /\ [][RankerNext]_vars

(***************************************************************************)
(* Claims about the ranker                                                 *)
(***************************************************************************)
\* C7: RelevanceRanker.score never raises on an LLM error and returns one
\* ScoredPaper per input candidate, in input order; a candidate is scored by
\* the heuristic exactly when there is no client or its own LLM scoring
\* failed, whatever happened to the candidates before and after it.
C7_OnePerCandidateInOrder ==
    /\ rk_pc # "raised"
    /\ Len(rk_out.scored) = rk_out.i - 1
    /\ rk_pc = "returned" => Len(rk_out.scored) = Len(rk_in.papers)
    /\ \A i \in DOMAIN rk_out.scored :
          /\ i <= Len(rk_in.papers)
          /\ rk_out.scored[i].paper = rk_in.papers[i]
          /\ rk_out.scored[i].path =
                IF rk_in.client /\ i \notin rk_out.failed THEN "llm" ELSE "heuristic"

\* C7 witness: a call returned two scored papers, the first degraded to the
\* heuristic by its LLM failure and the second still scored by the LLM
C7_Witness ==
    /\ rk_pc = "returned"
    /\ rk_in.client
    /\ Len(rk_out.scored) = 2
    /\ rk_out.failed = {1}
    /\ rk_out.scored[1].path = "heuristic"
    /\ rk_out.scored[2].path = "llm"

\* C8: every ScoredPaper carries one DimensionScore per configured
\* dimension, same name and weight at the same position, each value within
\* [0,1], and its normalized score is within [0,100].
C8_ScoresWellFormed ==
    \A k \in DOMAIN rk_out.scored :
        LET sp == rk_out.scored[k]
            dims == rk_in.dims
        IN  /\ DOMAIN sp.scores = DOMAIN dims
            /\ \A i \in DOMAIN dims :
                  /\ sp.scores[i].name = dims[i].name
                  /\ sp.scores[i].weight = dims[i].weight
                  /\ RatLE(RatInt(0), sp.scores[i].value)
                  /\ RatLE(sp.scores[i].value, RatInt(1))
            /\ RatLE(RatInt(0), Normalised(sp.total_score, dims))
            /\ RatLE(Normalised(sp.total_score, dims), RatInt(100))

\* C8 witness: a returned list holds an LLM-scored paper whose score was
\* clipped to the top of the range and a heuristic-scored paper
C8_Witness ==
    /\ rk_pc = "returned"
    /\ rk_in.dims # <<>>
    /\ \E k \in DOMAIN rk_out.scored :
          /\ rk_out.scored[k].path = "llm"
          /\ \A i \in DOMAIN rk_in.dims : rk_out.scored[k].scores[i].value = RatInt(1)
    /\ \E k \in DOMAIN rk_out.scored : rk_out.scored[k].path = "heuristic"

\* C28: for every ScoredPaper the ranker produces, the normalised score of
\* the threshold filter (total_score over the configured weights), of the
\* report builder and of the email digest (both from the weights stored in
\* the scores) are the same value, and the site shows that value to one
\* decimal; this includes weights that sum to zero, where each divides by
\* 1.0.
C28_SameNormalisedScore ==
    \A k \in DOMAIN rk_out.scored :
        LET sp == rk_out.scored[k]
            decided == Normalised(sp.total_score, rk_in.dims)
        IN  /\ _normalised_score(sp) = decided
            /\ _format_score_value(sp) = decided
            /\ _format_score(sp) = Format1f(decided)

\* C28 witness: the ranker returned an LLM-scored paper with a positive
\* score under dimensions whose weights do not sum to 1, the response
\* having left a dimension out
C28_Witness ==
    /\ rk_pc = "returned"
    /\ RatSum([ i \in DOMAIN rk_in.dims |-> rk_in.dims[i].weight ]) \notin
           {RatInt(0), RatInt(1)}
    /\ \E k \in DOMAIN rk_out.scored :
          LET sp == rk_out.scored[k]
          IN  /\ sp.path = "llm"
              /\ sp.scores[1].value = RatInt(0)
              /\ sp.scores[2].value # RatInt(0)
              /\ RatLT(RatInt(0), Normalised(sp.total_score, rk_in.dims))

(***************************************************************************)
(* Spec: run_pipeline, one call to a collaborator per step                 *)
(***************************************************************************)
PipeInit ==
    /\ pl_pc = "topic"
    /\ pl_cfg \in PipelineConfigs
    /\ pl = PipeLocals
    /\ RankerIdle
    /\ ReaderIdle
    /\ FetchIdle
    /\ SiteIdle
    /\ MailIdle
    /\ CliIdle
    /\ PdfIdle
    /\ GhIdle

\* `summaries.append(summary)` putting the summary in front
AppendSummary_Front(summaries, summary) == <<summary>> \o summaries

\* line 110: summaries.append(summary)
AppendSummary(summaries, summary) == Append(summaries, summary)

\* OrDemoCandidate substituting whatever the mode
OrDemoCandidate_AnyMode(fetched, mode, topic) ==
    IF fetched = <<>> THEN <<DemoPaper(topic)>> ELSE fetched

\* lines 68-70: the candidates after the substitution of the demo candidate
OrDemoCandidate(fetched, mode, topic) ==
    IF fetched = <<>> /\ mode = "offline" THEN <<DemoPaper(topic)>> ELSE fetched

\* lines 62-77: the head of the topic loop up to the paper limit.  With no
\* candidate the topic is skipped (`continue`).
PipeFetch ==
    /\ pl_pc = "topic"
    /\ pl.topic_index <= Len(pl_cfg.topics)
    /\ \E fetched \in FetchResults :
          LET topic == pl_cfg.topics[pl.topic_index]
              candidates == OrDemoCandidate(fetched, pl_cfg.mode, topic)
              skip == candidates = <<>>
          IN  /\ pl' = [pl EXCEPT
                    !.total_fetched = @ + Len(fetched),
                    !.candidates = ApplyLimit(candidates, pl_cfg.paper_limit),
                    !.fetches = Append(@, [topic |-> topic.name, fetched |-> fetched,
                                           candidates |-> candidates]),
                    !.topic_index = IF skip THEN @ + 1 ELSE @,
                    !.log = Append(@, "fetch")]
              /\ pl_pc' = IF skip THEN "topic" ELSE "rank"
    /\ UNCHANGED <<pl_cfg, rankVars, readVars, fetchVars, siteVars, mailVars, cliVars, pdfVars, ghVars>>

\* lines 82-87: ranking and filtering; with nothing selected the loop over
\* the selected papers is empty and the next topic starts
PipeRank ==
    /\ pl_pc = "rank"
    /\ \E resps \in [ 1..Len(pl.candidates) -> PipelineRankResponses ] :
          LET topic == pl_cfg.topics[pl.topic_index]
              r == score(HasClient(pl_cfg), pl_cfg.dimensions, topic,
                         pl.candidates, resps)
              selected == _filter_by_threshold(r.out, pl_cfg)
          IN  IF r.raised
              THEN /\ pl' = [pl EXCEPT !.crash = "ranker", !.log = Append(@, "rank")]
                   /\ pl_pc' = "raised"
              ELSE /\ pl' = [pl EXCEPT
                         !.scored = r.out, !.selected = selected,
                         !.total_selected = @ + Len(selected),
                         !.paper_index = 1,
                         !.topic_index = IF selected = <<>> THEN @ + 1 ELSE @,
                         !.ranked = Append(@, [topic |-> topic.name, scored |-> r.out]),
                         !.log = Append(@, "rank")]
                   /\ pl_pc' = IF selected = <<>> THEN "topic" ELSE "read"
    /\ UNCHANGED <<pl_cfg, rankVars, readVars, fetchVars, siteVars, mailVars, cliVars, pdfVars, ghVars>>

\* lines 97-110: one iteration of the loop over the selected papers; after
\* the last one the next topic starts
PipeRead ==
    /\ pl_pc = "read"
    /\ pl.paper_index <= Len(pl.selected)
    /\ \E failing \in PipelineFailures :
          LET topic == pl_cfg.topics[pl.topic_index]
              scored_paper == pl.selected[pl.paper_index]
              r == analyse(HasClient(pl_cfg), scored_paper.paper, PromptText(topic),
                           ReadEnv(failing))
              summary == build(topic, scored_paper, r.core_summary, r.tasks,
                               r.findings, r.overview, r.brief_summary)
              last == pl.paper_index = Len(pl.selected)
          IN  IF r.raised
              THEN /\ pl' = [pl EXCEPT !.crash = "reader", !.log = Append(@, "read")]
                   /\ pl_pc' = "raised"
              ELSE /\ pl' = [pl EXCEPT
                         !.summaries = AppendSummary(@, summary),
                         !.failures = Append(@, IF HasClient(pl_cfg) THEN failing ELSE {}),
                         !.calls = Append(@, r.calls),
                         !.paper_index = @ + 1,
                         !.topic_index = IF last THEN @ + 1 ELSE @,
                         !.log = Append(@, "read")]
                   /\ pl_pc' = IF last THEN "topic" ELSE "read"
    /\ UNCHANGED <<pl_cfg, rankVars, readVars, fetchVars, siteVars, mailVars, cliVars, pdfVars, ghVars>>

\* PipeSite not waiting for the end of the topic loop
PipeSite_Early ==
    /\ pl_pc = "topic"
    /\ \E outcome \in SiteOutcomes :
          /\ pl' = [pl EXCEPT !.log = Append(@, "site"),
                              !.crash = IF outcome = "raise" THEN "site" ELSE @]
          /\ pl_pc' = IF outcome = "raise" THEN "raised" ELSE "email"
    /\ UNCHANGED <<pl_cfg, rankVars, readVars, fetchVars, siteVars, mailVars, cliVars, pdfVars, ghVars>>

\* line 116, after the topic loop: site_builder.build(summaries)
PipeSite ==
    /\ pl_pc = "topic"
    /\ pl.topic_index > Len(pl_cfg.topics)
    /\ \E outcome \in SiteOutcomes :
          /\ pl' = [pl EXCEPT !.log = Append(@, "site"),
                              !.crash = IF outcome = "raise" THEN "site" ELSE @]
          /\ pl_pc' = IF outcome = "raise" THEN "raised" ELSE "email"
    /\ UNCHANGED <<pl_cfg, rankVars, readVars, fetchVars, siteVars, mailVars, cliVars, pdfVars, ghVars>>

\* lines 123-134: email_digest.send(summaries, ...), then the statistics and
\* the return
PipeEmail ==
    /\ pl_pc = "email"
    /\ \E outcome \in EmailOutcomes :
          /\ pl' = [pl EXCEPT !.log = Append(@, "email"),
                              !.crash = IF outcome = "raise" THEN "email" ELSE @]
          /\ pl_pc' = IF outcome = "raise" THEN "raised" ELSE "done"
    /\ UNCHANGED <<pl_cfg, rankVars, readVars, fetchVars, siteVars, mailVars, cliVars, pdfVars, ghVars>>

Next == PipeFetch \/ PipeRank \/ PipeRead \/ PipeSite \/ PipeEmail

Spec == PipeInit /\ [][Next]_vars
(***************************************************************************)
(* Claims about run_pipeline                                               *)
(***************************************************************************)
\* total_score divided by the sum of the configured weights, times 100
NormalisedScore(sp) ==
    RatMul(RatDiv(RatSum([ i \in DOMAIN sp.scores |->
                             RatMul(sp.scores[i].weight, sp.scores[i].value) ]),
                  RatSum([ i \in DOMAIN pl_cfg.dimensions |->
                             pl_cfg.dimensions[i].weight ])),
           RatInt(100))

\* C1: the papers selected for reading are exactly the scored papers whose
\* normalised score (total_score over the sum of the configured weights,
\* times 100) is at least pass_threshold, in the ranker's order; so every
\* summary is of a paper whose normalised score is at least the threshold.
C1_SelectedIffAtLeastThreshold ==
    /\ pl.selected = SelectSeq(pl.scored,
            LAMBDA sp : RatLE(pl_cfg.pass_threshold, NormalisedScore(sp)))
    /\ \A k \in DOMAIN pl.summaries :
          RatLE(pl_cfg.pass_threshold, NormalisedScore(pl.summaries[k].score_details))

\* C1 witness: of two scored papers one passed the threshold and one did
\* not, and the one that passed has been summarised
C1_Witness ==
    /\ pl_pc = "topic"
    /\ Len(pl.scored) = 2
    /\ Len(pl.selected) = 1
    /\ \E k \in DOMAIN pl.summaries : pl.summaries[k].score_details = pl.selected[1]
    /\ \E i \in DOMAIN pl.scored :
          RatLT(NormalisedScore(pl.scored[i]), pl_cfg.pass_threshold)

\* whether a is b with some elements left out
RECURSIVE IsSubSeq(_, _)
IsSubSeq(a, b) ==
    IF a = <<>> THEN TRUE
    ELSE IF b = <<>> THEN FALSE
    ELSE IF Head(a) = Head(b) THEN IsSubSeq(Tail(a), Tail(b))
    ELSE IsSubSeq(a, Tail(b))

\* what the ranker returned, call after call, each paper with its topic
RECURSIVE RankedFlat(_)
RankedFlat(ranked) ==
    IF ranked = <<>> THEN <<>>
    ELSE [ i \in DOMAIN Head(ranked).scored |->
             [topic |-> Head(ranked).topic, scored |-> Head(ranked).scored[i]] ]
         \o RankedFlat(Tail(ranked))

TopicIndex(name) == CHOOSE i \in DOMAIN pl_cfg.topics : pl_cfg.topics[i].name = name

C2_Ordered ==
    /\ \A i, j \in DOMAIN pl.ranked :
          i < j => TopicIndex(pl.ranked[i].topic) < TopicIndex(pl.ranked[j].topic)
    /\ IsSubSeq([ k \in DOMAIN pl.summaries |->
                    [topic |-> pl.summaries[k].topic,
                     scored |-> pl.summaries[k].score_details] ],
                RankedFlat(pl.ranked))

\* C2: the summaries are in topic order and, within a topic, in the order in
\* which the ranker returned the papers; the list is only ever appended to.
C2_TopicThenRankerOrder ==
    /\ []C2_Ordered
    /\ [][ /\ Len(pl.summaries') >= Len(pl.summaries)
           /\ SubSeq(pl.summaries', 1, Len(pl.summaries)) = pl.summaries ]_vars

\* C2 witness: the run is over with two summaries of the first topic
\* followed by one of the second
C2_Witness ==
    /\ pl_pc = "done"
    /\ Len(pl.summaries) = 3
    /\ pl.summaries[1].topic = pl_cfg.topics[1].name
    /\ pl.summaries[2].topic = pl_cfg.topics[1].name
    /\ pl.summaries[1].paper # pl.summaries[2].paper
    /\ pl.summaries[3].topic = pl_cfg.topics[2].name

Publishers == {"site", "email"}
Count(log, e) == Len(SelectSeq(log, LAMBDA x : x = e))

\* C3: a publisher is called only when the topic loop is over and every
\* selected paper has been read; nothing is fetched, ranked or read after a
\* publisher was called; when the run completes each publisher has been
\* called exactly once, also with no summary at all.
C3_PublishersLast ==
    /\ \A i, j \in DOMAIN pl.log :
          i < j /\ pl.log[i] \in Publishers => pl.log[j] \in Publishers
    /\ (\E i \in DOMAIN pl.log : pl.log[i] \in Publishers) =>
          /\ pl.topic_index > Len(pl_cfg.topics)
          /\ pl_pc \notin {"topic", "rank", "read"}
          /\ Len(pl.summaries) = pl.total_selected
    /\ pl_pc = "done" =>
          /\ Count(pl.log, "site") = 1
          /\ Count(pl.log, "email") = 1
          /\ pl.crash = "none"

\* C3 witness: the run completed with summaries, every topic fetched and
\* ranked before the two publisher calls that end the log
C3_Witness ==
    /\ pl_pc = "done"
    /\ Len(pl.summaries) >= 2
    /\ Count(pl.log, "fetch") = Len(pl_cfg.topics)
    /\ Count(pl.log, "read") = Len(pl.summaries)
    /\ SubSeq(pl.log, Len(pl.log) - 1, Len(pl.log)) = <<"site", "email">>

\* C6: no LLM failure in a reader stage ends the run or costs a summary:
\* every selected paper read so far has its summary; a summary lacks the
\* core summary exactly when there is no client or the core call failed, and
\* has all five fields otherwise; failed questions give the default tasks,
\* failed answers heuristic findings, a failed brief call the heuristic
\* brief; the stages that did not fail are answered by the LLM.
C6_ReaderFailureIsolated ==
    /\ pl.crash # "reader"
    /\ Len(pl.failures) = Len(pl.summaries)
    /\ Len(pl.summaries) =
          pl.total_selected -
             (IF pl_pc = "read" THEN Len(pl.selected) - pl.paper_index + 1 ELSE 0)
    /\ \A k \in DOMAIN pl.summaries :
          LET s == pl.summaries[k]
              f == pl.failures[k]
          IN  /\ s.core_summary.present <=> (HasClient(pl_cfg) /\ "core" \notin f)
              /\ s.core_summary.present =>
                    \A i \in DOMAIN CoreFields : s.core_summary.fields[i] # <<>>
              /\ s.task_list # <<>>
              /\ Len(s.findings) = Len(s.task_list)
              /\ "questions" \in f => s.task_list = DefaultTasks
              /\ \A i \in DOMAIN s.findings :
                    s.findings[i].path =
                       IF HasClient(pl_cfg) /\ "answers" \notin f
                       THEN "llm" ELSE "heuristic"
              /\ "brief" \in f =>
                    s.brief_summary = _brief_summary_heuristic(s.paper.abstract)
              /\ HasClient(pl_cfg) /\ "brief" \notin f =>
                    s.brief_summary = Strip(BriefText)

\* C6 witness: the core-summary call failed for the first paper of a topic
\* and succeeded for the second; both have a summary, the first without a
\* core summary, the second with its five fields
C6_Witness ==
    /\ pl_pc = "done"
    /\ Len(pl.summaries) >= 2
    /\ pl.summaries[1].topic = pl.summaries[2].topic
    /\ pl.failures[1] = {"core"}
    /\ pl.failures[2] = {}
    /\ ~pl.summaries[1].core_summary.present
    /\ pl.summaries[2].core_summary.present
    /\ \A i \in DOMAIN CoreFields : pl.summaries[2].core_summary.fields[i] # <<>>

(***************************************************************************)
(* SpecFetch: ArxivClient.fetch_for_topic, one request per step            *)
(***************************************************************************)
FetchInit ==
    /\ ft_pc = "start"
    /\ ft_in \in [ requests : BOOLEAN, arxiv : BOOLEAN, max_papers_per_topic : {1, 2},
                   topic : {TopicList[1], TopicList[3]}, request_delay : {1, 2} ]
    /\ ft = FetchLocals
    /\ RankerIdle
    /\ ReaderIdle
    /\ PipeIdle
    /\ SiteIdle
    /\ MailIdle
    /\ CliIdle
    /\ PdfIdle
    /\ GhIdle

\* lines 77-80 and 150-152: with requests the direct fetch comes first
FetchBegin ==
    /\ ft_pc = "start"
    /\ ft_pc' = IF ft_in.requests THEN "direct" ELSE "library"
    /\ UNCHANGED <<ft_in, ft, rankVars, readVars, pipeVars, siteVars, mailVars, cliVars, pdfVars, ghVars>>

\* FetchDirect without the try/except of the loop of _fallback_fetch
FetchDirect_NoExcept ==
    /\ ft_pc = "direct"
    /\ ft.url <= Len(urls)
    /\ \E outcome \in UrlOutcomes :
          LET result == _parse_fallback_response(outcome.entries, Now - DaysBack)
              made == Append(ft.requests, [to |-> urls[ft.url], kind |-> outcome.kind,
                                           served |-> outcome.kind = "feed",
                                           waited |-> ft.slept])
          IN  IF UrlRaises(outcome)
              THEN /\ ft' = [ft EXCEPT !.requests = made]
                   /\ ft_pc' = "raised"
              ELSE IF result # <<>>
              THEN /\ ft' = [ft EXCEPT !.requests = made, !.papers = result]
                   /\ ft_pc' = "returned"
              ELSE IF outcome.kind = "feed"
              THEN /\ ft' = [ft EXCEPT !.requests = made]
                   /\ ft_pc' = "library"
              ELSE /\ ft' = [ft EXCEPT !.requests = made, !.url = @ + 1]
                   /\ ft_pc' = "direct"
    /\ UNCHANGED <<ft_in, rankVars, readVars, pipeVars, siteVars, mailVars, cliVars, pdfVars, ghVars>>

\* lines 168-197: one iteration of `for url in urls`.  A non-empty result is
\* returned by _fallback_fetch and then by fetch_for_topic (lines 81-82); an
\* empty one sends fetch_for_topic on to the library.
FetchDirect ==
    /\ ft_pc = "direct"
    /\ ft.url <= Len(urls)
    /\ \E outcome \in UrlOutcomes :
          LET result == IF UrlRaises(outcome) THEN <<>>
                        ELSE _parse_fallback_response(outcome.entries, Now - DaysBack)
              made == Append(ft.requests, [to |-> urls[ft.url], kind |-> outcome.kind,
                                           served |-> outcome.kind = "feed",
                                           waited |-> ft.slept])
          IN  IF result # <<>>
              THEN /\ ft' = [ft EXCEPT !.requests = made, !.papers = result]
                   /\ ft_pc' = "returned"
              ELSE IF outcome.kind = "feed"
              THEN /\ ft' = [ft EXCEPT !.requests = made]
                   /\ ft_pc' = "library"
              ELSE /\ ft' = [ft EXCEPT !.requests = made, !.url = @ + 1]
                   /\ ft_pc' = "direct"
    /\ UNCHANGED <<ft_in, rankVars, readVars, pipeVars, siteVars, mailVars, cliVars, pdfVars, ghVars>>

\* lines 199-202: every URL failed, _fallback_fetch returns []
FetchDirectFailed ==
    /\ ft_pc = "direct"
    /\ ft.url > Len(urls)
    /\ ft_pc' = "library"
    /\ UNCHANGED <<ft_in, ft, rankVars, readVars, pipeVars, siteVars, mailVars, cliVars, pdfVars, ghVars>>

\* lines 86-147: without the library the result is []; with it the results
\* are iterated until the end, the limit or an error
FetchLibrary ==
    /\ ft_pc = "library"
    /\ IF ~ft_in.arxiv
       THEN /\ ft' = [ft EXCEPT !.papers = <<>>]
            /\ ft_pc' = "returned"
       ELSE \E o \in LibOutcomes :
               LET papers == LibraryPapers(Take(o.entries, o.good), Now - DaysBack,
                                           ft_in.max_papers_per_topic, <<>>)
               IN
               /\ ft' = [ft EXCEPT
                     !.papers = papers,
                     !.requests = Append(@, [to |-> "library",
                                             kind |-> IF o.error THEN "transport" ELSE "feed",
                                             served |-> ~o.error \/ o.good > 0,
                                             waited |-> ft.slept]),
                     !.slept = LibrarySleeps(papers, ft_in.max_papers_per_topic)
                               * ft_in.request_delay]
               /\ ft_pc' = "returned"
    /\ UNCHANGED <<ft_in, rankVars, readVars, pipeVars, siteVars, mailVars, cliVars, pdfVars, ghVars>>

FetchNext == FetchBegin \/ FetchDirect \/ FetchDirectFailed \/ FetchLibrary

SpecFetch == FetchInit /\ [][FetchNext]_vars

(***************************************************************************)
(* Claims about the archive client                                         *)
(***************************************************************************)
\* C10: fetch_for_topic never raises, whatever transport failure, HTTP error
\* status, unparsable body or missing library it meets on the endpoints it
\* tries; it returns a list, and the list is empty when no request it made
\* was served.
C10_FetchNeverRaises ==
    /\ ft_pc # "raised"
    /\ ft_pc = "returned" =>
          ((\A i \in DOMAIN ft.requests : ~ft.requests[i].served) => ft.papers = <<>>)
    /\ ft_pc # "returned" => ft.papers = <<>>

\* C10 witness: both URLs and the library were tried, every request failed,
\* and the call returned the empty list
C10_Witness ==
    /\ ft_pc = "returned"
    /\ Len(ft.requests) = 3
    /\ \A i \in DOMAIN ft.requests : ~ft.requests[i].served
    /\ ft.papers = <<>>

\* C11 (as claimed): the archive is queried over HTTPS first, and over HTTP
\* only after the HTTPS request ended in a transport failure; at most two
\* archive requests are made for a topic; an HTTPS response that was served
\* (a valid feed, also one with no entry) is followed by no other request.
C11_HttpsThenHttpOnce ==
    /\ ft.requests # <<>> => ft.requests[1].to = "https"
    /\ \A i \in DOMAIN ft.requests :
          ft.requests[i].to = "http" =>
             /\ i = 2
             /\ ft.requests[1].to = "https"
             /\ ft.requests[1].kind = "transport"
    /\ Len(ft.requests) <= 2
    /\ (ft.requests # <<>> /\ ft.requests[1].to = "https" /\ ft.requests[1].served) =>
          Len(ft.requests) = 1

\* C12 (as claimed): every candidate fetch_for_topic returns was published
\* within [now - days_back, now], whatever the feed holds: entries older
\* than the window, dated in the future, or without a readable date.
C12_PublishedInWindow ==
    ft_pc = "returned" =>
        \A i \in DOMAIN ft.papers :
            /\ Now - DaysBack <= ft.papers[i].published
            /\ ft.papers[i].published <= Now

\* C13 (as claimed): the list fetch_for_topic returns has at most
\* max_papers_per_topic candidates and is sorted by submission time, latest
\* first, also when the feed has more entries than asked for or is unsorted.
C13_BoundedAndSorted ==
    ft_pc = "returned" =>
        /\ Len(ft.papers) <= ft_in.max_papers_per_topic
        /\ \A i, j \in DOMAIN ft.papers :
              i < j => ft.papers[i].published >= ft.papers[j].published

\* whether the lowercased title + abstract of the paper contains one of the
\* topic's exclude keywords
NamesExcluded(topic, paper) ==
    \E i \in DOMAIN topic.exclude : topic.exclude[i] \in paper.words

\* C14 (as claimed): no candidate the archive client returns has a title +
\* abstract that contains an exclude keyword of the topic, whatever entries
\* the feed holds.
C14_NoExcludedCandidate ==
    ft_pc = "returned" =>
        \A i \in DOMAIN ft.papers : ~NamesExcluded(ft_in.topic, ft.papers[i].paper)

\* C26 (as claimed): between two consecutive requests that a fetch sends to
\* the archive (the HTTPS attempt, the HTTP attempt, the library's query) at
\* least request_delay of sleep elapses.
C26_DelayBetweenRequests ==
    \A i \in DOMAIN ft.requests :
        i > 1 => ft.requests[i].waited >= ft_in.request_delay

\* C15: a demo candidate is substituted for a topic exactly when the fetch
\* for the topic returned the empty list and the mode is offline; it is one
\* candidate, with the id demo-<topic name>-<time>.  In online mode a topic
\* whose fetch is empty is skipped: the ranker is not called for it and no
\* summary of it is appended.
C15_DemoIffEmptyOffline ==
    \A k \in DOMAIN pl.fetches :
        LET f == pl.fetches[k]
            name == pl_cfg.topics[k].name
        IN  /\ f.topic = name
            /\ IF f.fetched = <<>> /\ pl_cfg.mode = "offline"
               THEN /\ Len(f.candidates) = 1
                    /\ f.candidates[1].arxiv_id = "demo-" \o name \o "-" \o "000000"
               ELSE /\ f.candidates = f.fetched
                    /\ \A i \in DOMAIN f.candidates : ~IsDemoId(f.candidates[i].arxiv_id)
            /\ (f.fetched = <<>> /\ pl_cfg.mode = "online") =>
                  /\ \A i \in DOMAIN pl.ranked : pl.ranked[i].topic # name
                  /\ \A i \in DOMAIN pl.summaries : pl.summaries[i].topic # name
                  /\ (k = Len(pl.fetches) => pl_pc \notin {"rank", "read"})

\* C15 witness: in offline mode the fetch of the first topic was empty and
\* the demo candidate of the topic has been ranked, read and summarised;
\* the second topic had a candidate of the archive
C15_Witness ==
    /\ pl_pc = "done"
    /\ pl_cfg.mode = "offline"
    /\ Len(pl.fetches) = 2
    /\ pl.fetches[1].fetched = <<>>
    /\ pl.fetches[2].fetched # <<>>
    /\ \E i \in DOMAIN pl.summaries :
          /\ pl.summaries[i].topic = pl_cfg.topics[1].name
          /\ IsDemoId(pl.summaries[i].paper.arxiv_id)


\* C29 (as claimed): when run_pipeline completes, papers_selected is the
\* number of summaries of the result and is at most papers_fetched, also
\* when demo candidates were substituted or paper_limit applied.
C29_StatsConsistent ==
    pl_pc = "done" =>
        /\ pl.total_selected = Len(pl.summaries)
        /\ pl.total_selected <= pl.total_fetched

(***************************************************************************)
(* SpecSite: StaticSiteBuilder.build, one file per step                    *)
(***************************************************************************)
SiteInit ==
    /\ st_pc = "prepare"
    /\ st_in \in [ summaries : SiteSummaries ]
    /\ st = SiteLocals
    /\ RankerIdle
    /\ ReaderIdle
    /\ PipeIdle
    /\ FetchIdle
    /\ MailIdle
    /\ CliIdle
    /\ PdfIdle
    /\ GhIdle

\* lines 100-107: the output directory is emptied and made again (which may
\* raise), the summaries are grouped by topic name
SitePrepare ==
    /\ st_pc = "prepare"
    /\ \E ok \in BOOLEAN :
          IF ok
          THEN /\ st' = [st EXCEPT !.names = GroupNames(st_in.summaries, <<>>)]
               /\ st_pc' = "pages"
          ELSE /\ st' = [st EXCEPT !.failed = {"output_dir"}]
               /\ st_pc' = "raised"
    /\ UNCHANGED <<st_in, rankVars, readVars, pipeVars, fetchVars, mailVars, cliVars, pdfVars, ghVars>>

\* lines 110-116: one iteration of the inner loop, the page of one summary;
\* an error of write_text escapes build
SiteWritePage ==
    /\ st_pc = "pages"
    /\ st.group <= Len(st.names)
    /\ \E ok \in BOOLEAN :
          LET items == Group(st_in.summaries, st.names[st.group])
              path == PagePath(items[st.item])
              last == st.item = Len(items)
          IN  IF ok
              THEN /\ st' = [st EXCEPT !.files = @ \cup {path},
                                       !.item = IF last THEN 1 ELSE @ + 1,
                                       !.group = IF last THEN @ + 1 ELSE @]
                   /\ st_pc' = "pages"
              ELSE /\ st' = [st EXCEPT !.failed = @ \cup {path}]
                   /\ st_pc' = "raised"
    /\ UNCHANGED <<st_in, rankVars, readVars, pipeVars, fetchVars, mailVars, cliVars, pdfVars, ghVars>>

\* lines 118-119: index.html
SiteWriteIndex ==
    /\ st_pc = "pages"
    /\ st.group > Len(st.names)
    /\ \E ok \in BOOLEAN :
          IF ok
          THEN /\ st' = [st EXCEPT !.files = @ \cup {"index.html"}]
               /\ st_pc' = "manifest"
          ELSE /\ st' = [st EXCEPT !.failed = @ \cup {"index.html"}]
               /\ st_pc' = "raised"
    /\ UNCHANGED <<st_in, rankVars, readVars, pipeVars, fetchVars, mailVars, cliVars, pdfVars, ghVars>>

\* lines 121-133: manifest.json, and the return
SiteWriteManifest ==
    /\ st_pc = "manifest"
    /\ \E ok \in BOOLEAN :
          IF ok
          THEN /\ st' = [st EXCEPT !.files = @ \cup {"manifest.json"},
                                   !.manifest = ManifestTopics(st_in.summaries)]
               /\ st_pc' = "returned"
          ELSE /\ st' = [st EXCEPT !.failed = @ \cup {"manifest.json"}]
               /\ st_pc' = "raised"
    /\ UNCHANGED <<st_in, rankVars, readVars, pipeVars, fetchVars, mailVars, cliVars, pdfVars, ghVars>>

SiteNext == SitePrepare \/ SiteWritePage \/ SiteWriteIndex \/ SiteWriteManifest

SpecSite == SiteInit /\ [][SiteNext]_vars

(***************************************************************************)
(* Claims about the static site                                            *)
(***************************************************************************)
\* C16 (as claimed): after build, index.html and manifest.json exist, and
\* manifest.topics maps every configured topic name to the ids of the
\* topic's summaries, in summary order: a topic without summaries to [].
C16_ManifestHasEveryTopic ==
    st_pc = "returned" =>
        /\ {"index.html", "manifest.json"} \subseteq st.files
        /\ DOMAIN st.manifest = { SiteTopics[i] : i \in DOMAIN SiteTopics }
        /\ \A name \in DOMAIN st.manifest :
              LET items == SelectSeq(st_in.summaries, LAMBDA x : x.topic = name)
              IN  st.manifest[name] = [ i \in DOMAIN items |-> items[i].arxiv_id ]

\* the pages of the summaries
Pages == { PagePath(st_in.summaries[i]) : i \in DOMAIN st_in.summaries }

\* C18 (as claimed): a page that cannot be written is skipped: build goes on
\* to write the other pages, index.html and manifest.json and returns; of
\* the writes of pages and of the index only that of index.html is fatal.
C18_PageFailureSkipped ==
    /\ (st_pc = "raised" /\ st.failed \cap {"output_dir", "manifest.json"} = {}) =>
          "index.html" \in st.failed
    /\ "index.html" \in st.failed => st_pc = "raised"
    /\ st_pc = "returned" =>
          /\ Pages \ st.failed \subseteq st.files
          /\ {"index.html", "manifest.json"} \subseteq st.files


(***************************************************************************)
(* SpecMail: EmailDigest.send, one statement group per step                *)
(***************************************************************************)
MailInit ==
    /\ em_pc = "guards"
    /\ em_in \in [config : EmailConfigs, subject_context : SubjectContexts]
    /\ em = MailLocals
    /\ RankerIdle
    /\ ReaderIdle
    /\ PipeIdle
    /\ FetchIdle
    /\ SiteIdle
    /\ CliIdle
    /\ PdfIdle
    /\ GhIdle

\* lines 18-43: the early returns, in the order of the code; reading an
\* attribute the configuration lacks raises AttributeError
MailGuards ==
    /\ em_pc = "guards"
    /\ LET config == em_in.config
       IN  IF ~config.enabled THEN em_pc' = "returned" /\ em' = em
           ELSE IF ~config.sender \/ config.recipients = <<>>
                THEN em_pc' = "returned" /\ em' = em
           ELSE IF Lacks(config, "smtp_host")
                THEN em_pc' = "raised" /\ em' = [em EXCEPT !.error = "AttributeError"]
           ELSE IF ~config.smtp_host THEN em_pc' = "returned" /\ em' = em
           ELSE IF Lacks(config, "username") \/ Lacks(config, "password")
                THEN em_pc' = "raised" /\ em' = [em EXCEPT !.error = "AttributeError"]
           ELSE IF (config.username \/ config.password)
                   /\ ~(config.username /\ config.password)
                THEN em_pc' = "returned" /\ em' = em
           ELSE em_pc' = "compose" /\ em' = em
    /\ UNCHANGED <<em_in, rankVars, readVars, pipeVars, fetchVars, siteVars, cliVars, pdfVars, ghVars>>

\* lines 45-55: the body and the subject, outside the try
MailCompose ==
    /\ em_pc = "compose"
    /\ IF FormatRaises(em_in.config.subject_template, em_in.subject_context)
       THEN em_pc' = "raised" /\ em' = [em EXCEPT !.error = "KeyError"]
       ELSE em_pc' = "connect" /\ em' = em
    /\ UNCHANGED <<em_in, rankVars, readVars, pipeVars, fetchVars, siteVars, cliVars, pdfVars, ghVars>>

\* lines 56-58 and 68-71: the connection; an error is logged and swallowed
MailConnect ==
    /\ em_pc = "connect"
    /\ \E ok \in BOOLEAN :
          IF ok
          THEN em_pc' = "starttls" /\ em' = [em EXCEPT !.connected = TRUE]
          ELSE em_pc' = "returned" /\ em' = [em EXCEPT !.connected = TRUE, !.logged = TRUE]
    /\ UNCHANGED <<em_in, rankVars, readVars, pipeVars, fetchVars, siteVars, cliVars, pdfVars, ghVars>>

\* lines 59-61
MailStartTls ==
    /\ em_pc = "starttls"
    /\ IF em_in.config.use_tls /\ ~em_in.config.use_ssl
       THEN \E ok \in BOOLEAN :
               IF ok THEN em_pc' = "login" /\ em' = em
               ELSE em_pc' = "returned" /\ em' = [em EXCEPT !.logged = TRUE]
       ELSE em_pc' = "login" /\ em' = em
    /\ UNCHANGED <<em_in, rankVars, readVars, pipeVars, fetchVars, siteVars, cliVars, pdfVars, ghVars>>

\* lines 62-65
MailLogin ==
    /\ em_pc = "login"
    /\ IF em_in.config.username /\ em_in.config.password
       THEN \E ok \in BOOLEAN :
               IF ok THEN em_pc' = "send" /\ em' = em
               ELSE em_pc' = "returned" /\ em' = [em EXCEPT !.logged = TRUE]
       ELSE em_pc' = "send" /\ em' = em
    /\ UNCHANGED <<em_in, rankVars, readVars, pipeVars, fetchVars, siteVars, cliVars, pdfVars, ghVars>>

\* lines 66-71
MailSend ==
    /\ em_pc = "send"
    /\ \E ok \in BOOLEAN :
          IF ok THEN em_pc' = "returned" /\ em' = [em EXCEPT !.sent = TRUE]
          ELSE em_pc' = "returned" /\ em' = [em EXCEPT !.logged = TRUE]
    /\ UNCHANGED <<em_in, rankVars, readVars, pipeVars, fetchVars, siteVars, cliVars, pdfVars, ghVars>>

MailNext ==
    MailGuards \/ MailCompose \/ MailConnect \/ MailStartTls \/ MailLogin \/ MailSend

SpecMail == MailInit /\ [][MailNext]_vars

(***************************************************************************)
(* Claims about the email digest                                           *)
(***************************************************************************)
\* C17 (as claimed): send never raises, whatever the configuration, the
\* subject context and the SMTP outcome; with email disabled or sender,
\* recipients or SMTP host missing it returns without an SMTP connection;
\* an SMTP failure is logged and send returns.
C17_SendNeverRaises ==
    /\ em_pc # "raised"
    /\ (em_pc \notin {"idle", "guards"}
        /\ (~em_in.config.enabled \/ ~em_in.config.sender
            \/ em_in.config.recipients = <<>> \/ ~em_in.config.smtp_host))
          => ~em.connected /\ em_pc = "returned"
    /\ em.logged => em_pc = "returned"


(***************************************************************************)
(* SpecCli: the process of cli.main around run_pipeline                    *)
(***************************************************************************)
\* the configurations main is run on: one weighting, no paper limit
CliConfigs ==
    { c \in PipelineConfigs :
        /\ c.paper_limit = NoLimit
        /\ \A other \in PipelineConfigs : Len(other.dimensions) <= Len(c.dimensions) }

CliInit ==
    /\ cl_pc = "running"
    /\ cl = CliLocals
    /\ pl_pc = "topic"
    /\ pl_cfg \in CliConfigs
    /\ pl = PipeLocals
    /\ RankerIdle
    /\ ReaderIdle
    /\ FetchIdle
    /\ SiteIdle
    /\ MailIdle
    /\ PdfIdle
    /\ GhIdle

\* cli.py line 33: a step of run_pipeline
CliPipeline ==
    /\ cl_pc = "running"
    /\ Next

\* A KeyboardInterrupt raised while run_pipeline is at work.  No statement
\* of pipeline.py 37-134 or cli.py 23-39 catches it (the handlers of the
\* collaborators are `except Exception`), so it leaves run_pipeline and main
\* at once.
CliInterrupt ==
    /\ cl_pc = "running"
    /\ pl_pc \in {"topic", "rank", "read", "email"}
    /\ pl' = [pl EXCEPT !.crash = "KeyboardInterrupt"]
    /\ pl_pc' = "raised"
    /\ cl' = [cl EXCEPT !.interrupted = TRUE, !.at_interrupt = Len(pl.summaries)]
    /\ UNCHANGED <<cl_pc, pl_cfg, rankVars, readVars, fetchVars, siteVars, mailVars, pdfVars, ghVars>>

\* cli.py lines 35-43: main prints the statistics and returns (status 0);
\* an exception that left run_pipeline ends the interpreter with status 1,
\* a KeyboardInterrupt with 130
CliExit ==
    /\ cl_pc = "running"
    /\ pl_pc \in {"done", "raised"}
    /\ cl_pc' = "exited"
    /\ cl' = [cl EXCEPT !.exit_code = IF pl_pc = "done" THEN 0
                                      ELSE IF pl.crash = "KeyboardInterrupt" THEN 130
                                      ELSE 1]
    /\ UNCHANGED <<pipeVars, rankVars, readVars, fetchVars, siteVars, mailVars, pdfVars, ghVars>>

CliNext == CliPipeline \/ CliInterrupt \/ CliExit

SpecCli == CliInit /\ [][CliNext]_vars

(***************************************************************************)
(* Claims about the process                                                *)
(***************************************************************************)
\* C19 (as claimed): after a cancellation in the middle of a run no new
\* paper is read, the publishers are still invoked over exactly the
\* summaries completed so far, and the process exits non-zero.
C19_CancelStillPublishes ==
    /\ cl.interrupted => Len(pl.summaries) = cl.at_interrupt
    /\ (cl_pc = "exited" /\ cl.interrupted) =>
          /\ cl.exit_code # 0
          /\ Count(pl.log, "site") = 1
          /\ Count(pl.log, "email") = 1

\* C20 (as claimed): a run in online mode whose configuration has no
\* openai.api_key makes no archive, LLM or SMTP request and exits non-zero;
\* a run in offline mode without the key is not rejected.
C20_InvalidConfigStopsBeforeIO ==
    /\ (pl_cfg.mode = "online" /\ ~pl_cfg.api_key) =>
          /\ pl.log = <<>>
          /\ cl_pc = "exited" => cl.exit_code # 0
    /\ (pl_cfg.mode = "offline" /\ ~pl_cfg.api_key /\ cl_pc = "exited"
        /\ pl.crash = "none") => cl.exit_code = 0


(***************************************************************************)
(* Claims about the reading engine, continued                              *)
(***************************************************************************)
\* the number of calls of one kind made so far by analyse
ReaderCallCount(kind) == Len(SelectSeq(rd.calls, LAMBDA c : c = kind))

\* C21 (as claimed): a core summary that analyse holds has its five fields
\* non-empty: an empty or missing field of the response is retried and then
\* filled with the placeholder.
C21_CoreFieldsNonEmpty ==
    rd.core_summary.present =>
        \A i \in DOMAIN CoreFields : rd.core_summary.fields[i] # <<>>


\* C22 (as claimed): every finding has a non-empty answer and a confidence
\* within [0, 1], whichever answerer produced it.
C22_FindingsAnswered ==
    \A i \in DOMAIN rd.findings :
        /\ rd.findings[i].answer # <<>>
        /\ RatLE(RatInt(0), rd.findings[i].confidence)
        /\ RatLE(rd.findings[i].confidence, RatInt(1))


\* C27 (as claimed): with a client, a question is answered by the heuristic
\* only after 1 + max_question_retries failed LLM answer calls, so the answer
\* calls made so far number at least one per finding plus
\* max_question_retries for every heuristic finding.
C27_RetriedBeforeHeuristic ==
    rd_in.client =>
        ReaderCallCount("llm_answer") >=
            Len(rd.findings)
            + rd_in.max_question_retries
              * Len(SelectSeq(rd.findings, LAMBDA f : f.path = "heuristic"))


(***************************************************************************)
(* SpecPdf: PDFParser.fetch_text_from_pdf, one call per step               *)
(***************************************************************************)
PdfInit ==
    /\ pf_pc = "begin"
    /\ pf_in \in [requests : BOOLEAN, client : BOOLEAN, model : BOOLEAN,
                  max_chars : PdfMaxChars]
    /\ pf = PdfLocals
    /\ RankerIdle
    /\ ReaderIdle
    /\ PipeIdle
    /\ FetchIdle
    /\ SiteIdle
    /\ MailIdle
    /\ CliIdle
    /\ GhIdle

\* lines 49-53
PdfBegin ==
    /\ pf_pc = "begin"
    /\ pf_pc' = IF ~pf_in.requests \/ ~pf_in.client \/ ~pf_in.model
                THEN "returned" ELSE "download"
    /\ pf' = pf
    /\ UNCHANGED <<pf_in, rankVars, readVars, pipeVars, fetchVars, siteVars, mailVars, cliVars, ghVars>>

\* lines 56-57: requests.get and raise_for_status; an error goes to the
\* except clause and the finally clause
PdfDownload ==
    /\ pf_pc = "download"
    /\ \E ok \in BOOLEAN :
          /\ pf' = [pf EXCEPT !.log = Append(@, "download"),
                              !.failed = IF ok THEN @ ELSE "download"]
          /\ pf_pc' = IF ok THEN "tempfile" ELSE "cleanup"
    /\ UNCHANGED <<pf_in, rankVars, readVars, pipeVars, fetchVars, siteVars, mailVars, cliVars, ghVars>>

\* lines 59-61: NamedTemporaryFile(delete=False) creates the file, the
\* content is written, and only then tmp_path is bound; leaving the with
\* block closes the file and keeps it
PdfTempFile ==
    /\ pf_pc = "tempfile"
    /\ \E outcome \in {"written", "create_failed", "write_failed"} :
          /\ pf' = [pf EXCEPT
                      !.disk = IF outcome = "create_failed" THEN @ ELSE @ \cup {"tmp.pdf"},
                      !.tmp_path = IF outcome = "written" THEN Some(<<"tmp.pdf">>) ELSE @,
                      !.failed = IF outcome = "written" THEN @ ELSE "tempfile",
                      !.log = Append(@, "tempfile")]
          /\ pf_pc' = IF outcome = "written" THEN "upload" ELSE "cleanup"
    /\ UNCHANGED <<pf_in, rankVars, readVars, pipeVars, fetchVars, siteVars, mailVars, cliVars, ghVars>>

\* lines 84-91 of _parse_with_llm: the upload
PdfUpload ==
    /\ pf_pc = "upload"
    /\ \E ok \in BOOLEAN :
          /\ pf' = [pf EXCEPT
                      !.remote = IF ok THEN @ \cup {"file-1"} ELSE @,
                      !.uploaded_file_id = IF ok THEN Some(<<"file-1">>) ELSE @,
                      !.failed = IF ok THEN @ ELSE "upload",
                      !.log = Append(@, "upload")]
          /\ pf_pc' = IF ok THEN "extract" ELSE "delete"
    /\ UNCHANGED <<pf_in, rankVars, readVars, pipeVars, fetchVars, siteVars, mailVars, cliVars, ghVars>>

\* lines 93-117: the extraction request; an error makes the text None
PdfExtract ==
    /\ pf_pc = "extract"
    /\ \E text \in {NoPdfText} \cup { SomePdfText(n) : n \in PdfTextLengths },
          ok \in BOOLEAN :
          /\ ok \/ text = NoPdfText
          /\ pf' = [pf EXCEPT !.text_content = text,
                              !.failed = IF ok THEN @ ELSE "extract",
                              !.log = Append(@, "extract")]
          /\ pf_pc' = "delete"
    /\ UNCHANGED <<pf_in, rankVars, readVars, pipeVars, fetchVars, siteVars, mailVars, cliVars, ghVars>>

\* lines 118-123, the finally clause of _parse_with_llm, then lines 66-69;
\* an error of files.delete is swallowed and the file stays
PdfDelete ==
    /\ pf_pc = "delete"
    /\ \E ok \in BOOLEAN :
          /\ pf.uploaded_file_id = None => ok
          /\ pf' = [pf EXCEPT
                      !.remote = IF pf.uploaded_file_id # None /\ ok THEN {} ELSE @,
                      !.log = IF pf.uploaded_file_id # None THEN Append(@, "delete") ELSE @,
                      !.text_content = TruncatePdfText(@, pf_in.max_chars)]
          /\ pf_pc' = "cleanup"
    /\ UNCHANGED <<pf_in, rankVars, readVars, pipeVars, fetchVars, siteVars, mailVars, cliVars, ghVars>>

\* lines 71-76: the except and finally clauses of fetch_text_from_pdf
PdfCleanup ==
    /\ pf_pc = "cleanup"
    /\ pf' = [pf EXCEPT !.disk = IF pf.tmp_path # None THEN {} ELSE @]
    /\ pf_pc' = "returned"
    /\ UNCHANGED <<pf_in, rankVars, readVars, pipeVars, fetchVars, siteVars, mailVars, cliVars, ghVars>>

PdfNext ==
    PdfBegin \/ PdfDownload \/ PdfTempFile \/ PdfUpload \/ PdfExtract \/ PdfDelete
    \/ PdfCleanup

SpecPdf == PdfInit /\ [][PdfNext]_vars

(***************************************************************************)
(* Claims about the PDF fetcher                                            *)
(***************************************************************************)
\* C23 (as claimed): when fetch_text_from_pdf has returned, whichever step
\* failed (download, writing the temporary file, upload, extraction, none),
\* no temporary file of the call is on disk and, the file API having obeyed
\* the delete request, no uploaded file of the call is on the file API.
C23_NoResourceLeft ==
    pf_pc = "returned" =>
        /\ pf.disk = {}
        /\ (pf.remote # {} =>
               \E i \in DOMAIN pf.log : pf.log[i] = "delete")


(***************************************************************************)
(* Claims about the run, continued                                         *)
(***************************************************************************)
\* the requests that go to the external LLM: the chat completions of the
\* reader, and the PDF fetcher (upload, extraction and delete)
LLMCalls == {"pdf", "llm_brief", "llm_core", "llm_questions", "llm_answer"}

\* C24: in offline mode no request goes to the external LLM: every paper
\* is scored by the heuristic scorer; the reader asks for the HTML page only
\* and never for the PDF extraction or a chat completion; every summary has
\* no core summary, the default tasks or those of the fallback, heuristic
\* findings and the heuristic brief summary.
C24_OfflineNoLLM ==
    pl_cfg.mode = "offline" =>
        /\ \A k \in DOMAIN pl.ranked : \A i \in DOMAIN pl.ranked[k].scored :
              pl.ranked[k].scored[i].path = "heuristic"
        /\ \A k \in DOMAIN pl.calls : \A i \in DOMAIN pl.calls[k] :
              pl.calls[k][i] \notin LLMCalls
        /\ \A k \in DOMAIN pl.summaries :
              LET s == pl.summaries[k]
              IN  /\ ~s.core_summary.present
                  /\ s.task_list = DefaultTasks
                  /\ \A i \in DOMAIN s.findings : s.findings[i].path = "heuristic"
                  /\ s.brief_summary = _brief_summary_heuristic(s.paper.abstract)

\* C24 witness: an offline run with an API key configured completed with
\* two summaries, one of a fetched paper for which the reader asked for the
\* HTML page and nothing else
C24_Witness ==
    /\ pl_pc = "done"
    /\ pl_cfg.mode = "offline"
    /\ pl_cfg.api_key
    /\ Len(pl.summaries) >= 2
    /\ Len(pl.ranked) >= 1
    /\ \E k \in DOMAIN pl.summaries :
          /\ pl.calls[k] = <<"html">>
          /\ ~IsDemoId(pl.summaries[k].paper.arxiv_id)


\* the entry of pl.fetches of a topic
FetchOf(name) == pl.fetches[CHOOSE k \in DOMAIN pl.fetches : pl.fetches[k].topic = name]

\* the ScoredPapers of the summaries of a topic, in the order of the summaries
SummarisedOf(name) ==
    LET sums == SelectSeq(pl.summaries, LAMBDA s : s.topic = name)
    IN  [ i \in DOMAIN sums |-> sums[i].score_details ]

\* C25: the steps of a topic run in the order fetch, demo substitution,
\* paper_limit, rank, threshold filter, read.  Every topic is fetched before
\* it is ranked; the ranker receives the candidates after the demo
\* substitution, cut to their first paper_limit when a limit is set; the
\* papers read (and built into a summary) are the ranked papers that pass
\* the threshold, each once and in order: all of them when the topic is
\* over, the first paper_index - 1 of them while the topic is being read;
\* no other paper is read.
C25_StepOrderPerTopic ==
    /\ Len(pl.ranked) <= Len(pl.fetches)
    /\ pl_pc \in {"rank", "read"} => Len(pl.fetches) = pl.topic_index
    /\ Count(pl.log, "read") = Len(pl.summaries)
    /\ \A k \in DOMAIN pl.summaries :
          \E r \in DOMAIN pl.ranked : pl.ranked[r].topic = pl.summaries[k].topic
    /\ \A r \in DOMAIN pl.ranked :
          LET name == pl.ranked[r].topic
              given == [ i \in DOMAIN pl.ranked[r].scored |-> pl.ranked[r].scored[i].paper ]
              candidates == FetchOf(name).candidates
              passed == SelectSeq(pl.ranked[r].scored,
                            LAMBDA sp : RatLE(pl_cfg.pass_threshold, NormalisedScore(sp)))
              reading == r = Len(pl.ranked) /\ pl_pc = "read"
          IN  /\ \E k \in DOMAIN pl.fetches : pl.fetches[k].topic = name
              /\ ~pl_cfg.paper_limit.isNone => Len(given) <= pl_cfg.paper_limit.n
              /\ Len(given) = IF pl_cfg.paper_limit.isNone
                                 \/ Len(candidates) < pl_cfg.paper_limit.n
                              THEN Len(candidates) ELSE pl_cfg.paper_limit.n
              /\ given = SubSeq(candidates, 1, Len(given))
              /\ SummarisedOf(name) =
                    IF reading THEN SubSeq(passed, 1, pl.paper_index - 1) ELSE passed

\* C25 witness: with paper_limit 1 a topic fetched two candidates, one was
\* ranked and read; the run is over
C25_Witness ==
    /\ pl_pc = "done"
    /\ ~pl_cfg.paper_limit.isNone
    /\ \E k \in DOMAIN pl.fetches, r \in DOMAIN pl.ranked :
          /\ pl.fetches[k].topic = pl.ranked[r].topic
          /\ Len(pl.fetches[k].fetched) = 2
          /\ Len(pl.ranked[r].scored) = 1
          /\ Len(SummarisedOf(pl.ranked[r].topic)) = 1


(***************************************************************************)
(* SpecGh: GitHubClient._make_request, one iteration of the loop per step  *)
(***************************************************************************)
GhInit ==
    /\ gh_pc = "loop"
    /\ gh_in \in [max_retries : 0..MaxRetries, retry_delay : {1, 2}]
    /\ gh = GhLocals
    /\ RankerIdle
    /\ ReaderIdle
    /\ PipeIdle
    /\ FetchIdle
    /\ SiteIdle
    /\ MailIdle
    /\ CliIdle
    /\ PdfIdle

\* lines 91-105: one iteration of `for attempt in range(max_retries + 1)`:
\* the request, and on a RequestException the sleep before the next one
GhAttempt ==
    /\ gh_pc = "loop"
    /\ gh.attempt < gh_in.max_retries + 1
    /\ \E outcome \in GhOutcomes :
          LET attempt == gh.attempt
              made == Append(gh.requests, [attempt |-> attempt, outcome |-> outcome])
          IN  IF outcome = "ok"
              THEN /\ gh' = [gh EXCEPT !.requests = made, !.response = attempt]
                   /\ gh_pc' = "returned"
              ELSE /\ gh' = [gh EXCEPT
                         !.requests = made,
                         !.last_exception = GhException(outcome, attempt),
                         !.sleeps = IF attempt < gh_in.max_retries
                                    THEN Append(@, [after |-> attempt,
                                                    delay |-> Backoff(gh_in.retry_delay,
                                                                      attempt)])
                                    ELSE @,
                         !.attempt = attempt + 1]
                   /\ gh_pc' = "loop"
    /\ UNCHANGED <<gh_in, rankVars, readVars, pipeVars, fetchVars, siteVars, mailVars,
                   cliVars, pdfVars>>

\* lines 107-111: the loop ended without a return
GhExhausted ==
    /\ gh_pc = "loop"
    /\ gh.attempt >= gh_in.max_retries + 1
    /\ gh' = [gh EXCEPT !.raised = IF gh.last_exception # NoException
                                   THEN gh.last_exception
                                   ELSE GhException("RequestException", 0 - 1)]
    /\ gh_pc' = "raised"
    /\ UNCHANGED <<gh_in, rankVars, readVars, pipeVars, fetchVars, siteVars, mailVars,
                   cliVars, pdfVars>>

GhNext == GhAttempt \/ GhExhausted

SpecGh == GhInit /\ [][GhNext]_vars

\* C30: _make_request makes at most max_retries + 1 attempts; no attempt
\* follows a successful one, whose response is the one returned; failed
\* attempt k with k < max_retries is followed by a sleep of
\* retry_delay * 2^k and the last failed attempt by none; the call raises
\* only after max_retries + 1 failures, and then the exception of the last
\* attempt.
C30_RetryWithBackoff ==
    LET n == Len(gh.requests)
        failed == { k \in 0..(n - 1) : gh.requests[k + 1].outcome # "ok" }
    IN  /\ n <= gh_in.max_retries + 1
        /\ \A k \in 0..(n - 1) :
              /\ gh.requests[k + 1].attempt = k
              /\ gh.requests[k + 1].outcome = "ok" =>
                    (k = n - 1 /\ gh_pc = "returned" /\ gh.response = k)
        /\ Len(gh.sleeps) = Cardinality({ k \in failed : k < gh_in.max_retries })
        /\ \A j \in DOMAIN gh.sleeps :
              /\ gh.sleeps[j].after = j - 1
              /\ gh.sleeps[j].after \in failed
              /\ gh.sleeps[j].delay = gh_in.retry_delay * 2 ^ (j - 1)
        /\ gh_pc = "returned" => (n >= 1 /\ gh.requests[n].outcome = "ok")
        /\ gh_pc = "raised" =>
              /\ n = gh_in.max_retries + 1
              /\ failed = 0..(n - 1)
              /\ Len(gh.sleeps) = gh_in.max_retries
              /\ gh.raised = GhException(gh.requests[n].outcome, n - 1)

\* C30 witness: with max_retries = 3 every attempt failed, the last one in
\* another way than the one before it, three sleeps were made and the call
\* has raised
C30_Witness ==
    /\ gh_pc = "raised"
    /\ gh_in.max_retries = 3
    /\ Len(gh.requests) = 4
    /\ Len(gh.sleeps) = 3
    /\ gh.requests[3].outcome # gh.requests[4].outcome
    /\ gh.raised.kind = gh.requests[4].outcome

====
